---- MODULE Spec2Model ----
(***************************************************************************)
(* Model of the eye-controlled car controller (src/eye_controlled_car.py): *)
(* the per-frame debouncer detect_eye_state, the edge-triggered decision   *)
(* in run, and the serial actuator link (setup_arduino, send_to_arduino,   *)
(* cleanup).                                                               *)
(*                                                                         *)
(* The vision pipeline is an input: each frame supplies an observation     *)
(* (face present or not, number of eyes found in the face).  The serial    *)
(* device is an input as well: opening the port succeeds or raises, and    *)
(* each write/flush succeeds or raises.                                    *)
(*                                                                         *)
(* The voice variant (src/eye_controlled_car_with_voice.py) and the two     *)
(* sleepiness detectors (src/sleepiness_detection.py,                      *)
(* src/simple_sleepiness_detection.py) have specifications of their own    *)
(* over the same variables, and so have the two test tools: manual_test of *)
(* src/test_enhanced_system.py and SleepinessTestDetector of               *)
(* src/test_sleepiness_no_arduino.py.                                      *)
(*                                                                         *)
(* Python's True / False / None are the strings "True", "False", "None".   *)
(* frame_count only feeds the overlay text and is left out.                *)
(***************************************************************************)
EXTENDS Integers, Sequences, FiniteSets, TLC

\* ------------------------------------------------------------------ bounds
\* Longest run of frames of one kind (no face / closed / open) that is explored.
MaxRun == 17
\* Largest number of eyes the eye cascade reports in one face.
MaxEyes == 2
\* time.time() at the first frame, in seconds after the initial last_voice_time = 0.
StartTime == 4
\* The clock value up to which the voice variant is explored.
MaxTime == 9
\* Longest time between two reads of the clock (one frame, its speech included).
MaxStep == 2
\* Largest number of faces the dlib detector reports in one frame.
MaxFaces == 2
\* The value up to which frame_counter and the simple detector's eye_closed_counter
\* are explored.
MaxCount == 22
\* The value up to which sleepy_counter is explored.
MaxSleepy == 2
\* The value up to which the simple detector's no_face_counter is explored.
MaxAbsent == 32
\* Eye landmark sets for calculate_ear: corner distance, lid opening, skew of a lid point.
MaxWidth == 4
MaxLid == 2
MaxSkew == 2
\* manual_test: the length of a line typed at the prompt, and the number of prompts.
MaxLen == 2
MaxInputs == 2
\* SleepinessTestDetector: the value up to which total_frames is explored.
MaxFrames == 24

\* ------------------------------------------------------- program constants
\* self.EYE_CLOSED_THRESHOLD
EYE_CLOSED_THRESHOLD == 15
\* time.sleep(2) in setup_arduino: seconds between opening the port and the first write
HANDSHAKE_PAUSE == 2
\* "(current_time - last_voice_time) > 3" in EyeControlledCarWithVoice.run
VOICE_INTERVAL == 3
\* Distances and eye aspect ratios are kept in thousandths.
Scale == 1000
\* SleepinessDetector: self.EAR_THRESHOLD = 0.21, in thousandths
EAR_THRESHOLD == 210
\* SleepinessDetector: self.CONSECUTIVE_FRAMES
CONSECUTIVE_FRAMES == 20
\* SimpleSleepinessDetector: self.FACE_ABSENT_THRESHOLD
FACE_ABSENT_THRESHOLD == 30
\* SimpleSleepinessDetector: self.EYE_CLOSED_THRESHOLD
SIMPLE_EYE_CLOSED_THRESHOLD == 20
\* SleepinessTestDetector: self.EYE_CLOSED_THRESHOLD
TEST_EYE_CLOSED_THRESHOLD == 20

VARIABLES
    pc,                  \* position of the program: "init", "camera", "loop", "done", "exit"
    eye_closed_counter,  \* self.eye_closed_counter
    no_face_counter,     \* self.no_face_counter
    car_running,         \* self.car_running
    arduino,             \* self.arduino: "None", or a handle that is "open" or "closed"
    det,                 \* what detect_eye_state returned on the last frame
    sent,                \* the send_to_arduino calls of the last step, by call site
    write_failed,        \* some write on the link has raised so far
    lastIssued,          \* the last command the frame loop passed to send_to_arduino
    run,                 \* the current run of frames of one kind, and what was written in it
    prev,                \* kind and length of the run before the current one
    nl,                  \* the same program fed the same frames with self.arduino = None
    io,                  \* what setup_arduino and cleanup did: port opens, pauses, closes
    voice,               \* EyeControlledCarWithVoice: voice_active, last_voice_time, the clock
    last_written,        \* the last byte that went out on the link: <<>> or <<byte>>
    frame_counter,       \* SleepinessDetector: self.frame_counter
    sleepy_counter,      \* SleepinessDetector: self.sleepy_counter
    frame,               \* the sleepiness detectors: what the last frame did
    base,                \* EyeControlledCar run beside the voice variant on the same inputs
    manual,              \* manual_test of test_enhanced_system.py: the last input and its effect
    test                 \* SleepinessTestDetector: total_frames, alert_count, the last pass

vars == <<pc, eye_closed_counter, no_face_counter, car_running, arduino, det,
          sent, write_failed, lastIssued, run, prev, nl, io, voice,
          last_written, frame_counter, sleepy_counter, frame, base, manual, test>>

\* The variables only the sleepiness detectors use.
sleepiness == <<frame_counter, sleepy_counter, frame>>

\* The variables only the test tools use.
tools == <<manual, test>>

\* --------------------------------------------------------------- inputs
\* One observation per frame: len(faces) > 0, and len(eyes) in the largest face.
Observations ==
    {[face |-> FALSE, eyes |-> 0]} \cup {[face |-> TRUE, eyes |-> n] : n \in 0..MaxEyes}

\* The kind of a frame, read off the observation alone.
ObsKind(obs) ==
    IF ~obs.face THEN "noface" ELSE IF obs.eyes < 2 THEN "closed" ELSE "open"

\* ------------------------------------------------------- detect_eye_state
NoDet == [eyes_open |-> "none", status |-> "none"]

\* Variant: the threshold test written >= instead of >.
detect_eye_state_ge(ecc, nfc, obs) ==
    IF ~obs.face
    THEN [eyes_open |-> "False", status |-> "no_driver", eye_count |-> 0,
          eye_closed_counter |-> 0, no_face_counter |-> nfc + 1]
    ELSE IF obs.eyes < 2
         THEN IF ecc + 1 >= EYE_CLOSED_THRESHOLD
              THEN [eyes_open |-> "False", status |-> "closed", eye_count |-> obs.eyes,
                    eye_closed_counter |-> ecc + 1, no_face_counter |-> 0]
              ELSE [eyes_open |-> "None", status |-> "checking", eye_count |-> obs.eyes,
                    eye_closed_counter |-> ecc + 1, no_face_counter |-> 0]
         ELSE [eyes_open |-> "True", status |-> "open", eye_count |-> obs.eyes,
               eye_closed_counter |-> 0, no_face_counter |-> 0]

\* Variant: the open-eye branch reports open eyes only once the counter has
\* decayed to 0, and takes one off the counter instead of resetting it.
detect_eye_state_decay(ecc, nfc, obs) ==
    IF ~obs.face
    THEN [eyes_open |-> "False", status |-> "no_driver", eye_count |-> 0,
          eye_closed_counter |-> 0, no_face_counter |-> nfc + 1]
    ELSE IF obs.eyes < 2
         THEN IF ecc + 1 > EYE_CLOSED_THRESHOLD
              THEN [eyes_open |-> "False", status |-> "closed", eye_count |-> obs.eyes,
                    eye_closed_counter |-> ecc + 1, no_face_counter |-> 0]
              ELSE [eyes_open |-> "None", status |-> "checking", eye_count |-> obs.eyes,
                    eye_closed_counter |-> ecc + 1, no_face_counter |-> 0]
         ELSE IF ecc > 1
              THEN [eyes_open |-> "None", status |-> "checking", eye_count |-> obs.eyes,
                    eye_closed_counter |-> ecc - 1, no_face_counter |-> 0]
              ELSE [eyes_open |-> "True", status |-> "open", eye_count |-> obs.eyes,
                    eye_closed_counter |-> 0, no_face_counter |-> 0]

\* Variant: the no-face branch leaves eye_closed_counter as it is.
detect_eye_state_keep(ecc, nfc, obs) ==
    IF ~obs.face
    THEN [eyes_open |-> "False", status |-> "no_driver", eye_count |-> 0,
          eye_closed_counter |-> ecc, no_face_counter |-> nfc + 1]
    ELSE IF obs.eyes < 2
         THEN IF ecc + 1 > EYE_CLOSED_THRESHOLD
              THEN [eyes_open |-> "False", status |-> "closed", eye_count |-> obs.eyes,
                    eye_closed_counter |-> ecc + 1, no_face_counter |-> 0]
              ELSE [eyes_open |-> "None", status |-> "checking", eye_count |-> obs.eyes,
                    eye_closed_counter |-> ecc + 1, no_face_counter |-> 0]
         ELSE [eyes_open |-> "True", status |-> "open", eye_count |-> obs.eyes,
               eye_closed_counter |-> 0, no_face_counter |-> 0]

\* Variant: the branch for exactly one eye falls off the end without a result.
detect_eye_state_partial(ecc, nfc, obs) ==
    IF ~obs.face
    THEN [eyes_open |-> "False", status |-> "no_driver", eye_count |-> 0,
          eye_closed_counter |-> 0, no_face_counter |-> nfc + 1]
    ELSE IF obs.eyes = 1
         THEN [eyes_open |-> "none", status |-> "none", eye_count |-> obs.eyes,
               eye_closed_counter |-> ecc, no_face_counter |-> 0]
    ELSE IF obs.eyes < 2
         THEN IF ecc + 1 > EYE_CLOSED_THRESHOLD
              THEN [eyes_open |-> "False", status |-> "closed", eye_count |-> obs.eyes,
                    eye_closed_counter |-> ecc + 1, no_face_counter |-> 0]
              ELSE [eyes_open |-> "None", status |-> "checking", eye_count |-> obs.eyes,
                    eye_closed_counter |-> ecc + 1, no_face_counter |-> 0]
         ELSE [eyes_open |-> "True", status |-> "open", eye_count |-> obs.eyes,
               eye_closed_counter |-> 0, no_face_counter |-> 0]

\* Variant: a frame without a face is reported as undecided.
detect_eye_state_lenient(ecc, nfc, obs) ==
    IF ~obs.face
    THEN [eyes_open |-> "None", status |-> "no_driver", eye_count |-> 0,
          eye_closed_counter |-> 0, no_face_counter |-> nfc + 1]
    ELSE IF obs.eyes < 2
         THEN IF ecc + 1 > EYE_CLOSED_THRESHOLD
              THEN [eyes_open |-> "False", status |-> "closed", eye_count |-> obs.eyes,
                    eye_closed_counter |-> ecc + 1, no_face_counter |-> 0]
              ELSE [eyes_open |-> "None", status |-> "checking", eye_count |-> obs.eyes,
                    eye_closed_counter |-> ecc + 1, no_face_counter |-> 0]
         ELSE [eyes_open |-> "True", status |-> "open", eye_count |-> obs.eyes,
               eye_closed_counter |-> 0, no_face_counter |-> 0]

\* Returns the tuple (eyes_open, status, eye_count) and the updated counters.
detect_eye_state(ecc, nfc, obs) ==
    IF ~obs.face
    THEN [eyes_open |-> "False", status |-> "no_driver", eye_count |-> 0,
          eye_closed_counter |-> 0, no_face_counter |-> nfc + 1]
    ELSE IF obs.eyes < 2
         THEN IF ecc + 1 > EYE_CLOSED_THRESHOLD
              THEN [eyes_open |-> "False", status |-> "closed", eye_count |-> obs.eyes,
                    eye_closed_counter |-> ecc + 1, no_face_counter |-> 0]
              ELSE [eyes_open |-> "None", status |-> "checking", eye_count |-> obs.eyes,
                    eye_closed_counter |-> ecc + 1, no_face_counter |-> 0]
         ELSE [eyes_open |-> "True", status |-> "open", eye_count |-> obs.eyes,
               eye_closed_counter |-> 0, no_face_counter |-> 0]

\* The DetectionState a returned tuple stands for.
DetectionState(d) ==
    CASE d.status = "no_driver" -> "NO_FACE"
      [] d.status = "closed"    -> "EYES_CLOSED"
      [] d.status = "checking"  -> "UNCERTAIN"
      [] d.status = "open"      -> "EYES_OPEN"
      [] OTHER                  -> "none"

\* -------------------------------------------------------- send_to_arduino
NoCall == [called |-> FALSE, signal |-> "none", attempted |-> FALSE, ok |-> FALSE,
           afterFailure |-> FALSE, link |-> "None", after |-> "None", bytes |-> <<>>,
           ops |-> <<>>, printed |-> FALSE, raised |-> FALSE]

\* The result record where send_to_arduino is not called.
NoSend == [arduino |-> "None", attempted |-> FALSE, written |-> "none",
           bytes |-> <<>>, ops |-> <<>>, printed |-> FALSE, raised |-> FALSE]

\* signal.encode(): the UTF-8 bytes of the command string (all commands are ASCII).
encode(signal) ==
    CASE signal = "0" -> <<48>>
      [] signal = "1" -> <<49>>
      [] OTHER        -> <<>>

\* Variant: no "if self.arduino" guard and no try: a call without an open port raises.
send_to_arduino_unguarded(ard, signal, writeOk) ==
    IF ard = "open"
    THEN IF writeOk
         THEN [arduino |-> ard, attempted |-> TRUE, written |-> signal,
               bytes |-> encode(signal), ops |-> <<"write", "flush">>,
               printed |-> FALSE, raised |-> FALSE]
         ELSE [arduino |-> ard, attempted |-> TRUE, written |-> "none",
               bytes |-> <<>>, ops |-> <<"write">>,
               printed |-> TRUE, raised |-> FALSE]
    ELSE [arduino |-> ard, attempted |-> FALSE, written |-> "none",
          bytes |-> <<>>, ops |-> <<>>, printed |-> FALSE, raised |-> TRUE]

\* Variant: the except clause also drops the handle (self.arduino = None).
send_to_arduino_demote(ard, signal, writeOk) ==
    IF ard = "open"
    THEN IF writeOk
         THEN [arduino |-> ard, attempted |-> TRUE, written |-> signal,
               bytes |-> encode(signal), ops |-> <<"write", "flush">>,
               printed |-> FALSE, raised |-> FALSE]
         ELSE [arduino |-> "None", attempted |-> TRUE, written |-> "none",
               bytes |-> <<>>, ops |-> <<"write">>,
               printed |-> TRUE, raised |-> FALSE]
    ELSE [arduino |-> ard, attempted |-> FALSE, written |-> "none",
          bytes |-> <<>>, ops |-> <<>>, printed |-> FALSE, raised |-> FALSE]

\* Variant: no try / except around write and flush.
send_to_arduino_nocatch(ard, signal, writeOk) ==
    IF ard = "open"
    THEN IF writeOk
         THEN [arduino |-> ard, attempted |-> TRUE, written |-> signal,
               bytes |-> encode(signal), ops |-> <<"write", "flush">>,
               printed |-> FALSE, raised |-> FALSE]
         ELSE [arduino |-> ard, attempted |-> TRUE, written |-> "none",
               bytes |-> <<>>, ops |-> <<"write">>,
               printed |-> FALSE, raised |-> TRUE]
    ELSE [arduino |-> ard, attempted |-> FALSE, written |-> "none",
          bytes |-> <<>>, ops |-> <<>>, printed |-> FALSE, raised |-> FALSE]

\* Variant: the command is written with a line terminator.
send_to_arduino_newline(ard, signal, writeOk) ==
    IF ard = "open"
    THEN IF writeOk
         THEN [arduino |-> ard, attempted |-> TRUE, written |-> signal,
               bytes |-> encode(signal) \o <<10>>, ops |-> <<"write", "flush">>,
               printed |-> FALSE, raised |-> FALSE]
         ELSE [arduino |-> ard, attempted |-> TRUE, written |-> "none",
               bytes |-> <<>>, ops |-> <<"write">>,
               printed |-> TRUE, raised |-> FALSE]
    ELSE [arduino |-> ard, attempted |-> FALSE, written |-> "none",
          bytes |-> <<>>, ops |-> <<>>, printed |-> FALSE, raised |-> FALSE]

\* Variant: the except clause swallows the error without printing it.
send_to_arduino_silent(ard, signal, writeOk) ==
    IF ard = "open"
    THEN IF writeOk
         THEN [arduino |-> ard, attempted |-> TRUE, written |-> signal,
               bytes |-> encode(signal), ops |-> <<"write", "flush">>,
               printed |-> FALSE, raised |-> FALSE]
         ELSE [arduino |-> ard, attempted |-> TRUE, written |-> "none",
               bytes |-> <<>>, ops |-> <<"write">>,
               printed |-> FALSE, raised |-> FALSE]
    ELSE [arduino |-> ard, attempted |-> FALSE, written |-> "none",
          bytes |-> <<>>, ops |-> <<>>, printed |-> FALSE, raised |-> FALSE]

\* Variant: a call that finds no handle opens the port again.
send_to_arduino_reopen(ard, signal, writeOk) ==
    IF ard = "open"
    THEN IF writeOk
         THEN [arduino |-> ard, attempted |-> TRUE, written |-> signal,
               bytes |-> encode(signal), ops |-> <<"write", "flush">>,
               printed |-> FALSE, raised |-> FALSE]
         ELSE [arduino |-> ard, attempted |-> TRUE, written |-> "none",
               bytes |-> <<>>, ops |-> <<"write">>,
               printed |-> TRUE, raised |-> FALSE]
    ELSE [arduino |-> IF ard = "None" THEN "open" ELSE ard,
          attempted |-> FALSE, written |-> "none",
          bytes |-> <<>>, ops |-> <<>>, printed |-> FALSE, raised |-> FALSE]

\* One call: the handle afterwards, whether a write was attempted, the byte that
\* went out (or "none"), whether the error message was printed, and whether an
\* exception left the call.  writeOk is the device's answer to write + flush.
\* The except clause prints and does nothing else: the handle is not reset, and
\* a write that raises leaves the port's is_open as it was.
send_to_arduino(ard, signal, writeOk) ==
    IF ard = "open"
    THEN IF writeOk
         THEN [arduino |-> ard, attempted |-> TRUE, written |-> signal,
               bytes |-> encode(signal), ops |-> <<"write", "flush">>,
               printed |-> FALSE, raised |-> FALSE]
         ELSE [arduino |-> ard, attempted |-> TRUE, written |-> "none",
               bytes |-> <<>>, ops |-> <<"write">>,
               printed |-> TRUE, raised |-> FALSE]
    ELSE [arduino |-> ard, attempted |-> FALSE, written |-> "none",
          bytes |-> <<>>, ops |-> <<>>, printed |-> FALSE, raised |-> FALSE]

\* The record kept of a call made with the link in state ard.
Call(ard, signal, s, failedBefore) ==
    [called |-> TRUE, signal |-> signal, attempted |-> s.attempted,
     ok |-> s.written # "none", afterFailure |-> failedBefore,
     link |-> ard, after |-> s.arduino, bytes |-> s.bytes, ops |-> s.ops,
     printed |-> s.printed, raised |-> s.raised]

\* ------------------------------------------------------------ setup_arduino
\* Variant: no try / except around serial.Serial: a port that cannot be opened raises.
setup_arduino_noexcept(opens, writeOk) ==
    IF opens
    THEN LET s == send_to_arduino("open", "0", writeOk)
         IN  [arduino |-> s.arduino, called |-> TRUE, send |-> s, raised |-> s.raised,
              trace |-> <<"open", "sleep", "print", "send">>,
              slept |-> HANDSHAKE_PAUSE, warned |-> FALSE]
    ELSE [arduino |-> "None", called |-> FALSE, send |-> NoSend, raised |-> TRUE,
          trace |-> <<"open">>, slept |-> 0, warned |-> FALSE]

\* Variant: the stop command is sent right after the port is opened, before the pause.
setup_arduino_early(opens, writeOk) ==
    IF opens
    THEN LET s == send_to_arduino("open", "0", writeOk)
         IN  [arduino |-> IF s.raised THEN "None" ELSE s.arduino,
              called |-> TRUE, send |-> s, raised |-> FALSE,
              trace |-> IF s.raised THEN <<"open", "send", "warn">>
                        ELSE <<"open", "send", "sleep", "print">>,
              slept |-> 0, warned |-> s.raised]
    ELSE [arduino |-> "None", called |-> FALSE, send |-> NoSend, raised |-> FALSE,
          trace |-> <<"open", "warn">>, slept |-> 0, warned |-> TRUE]

\* Variant: the connect-time command is the start command.
setup_arduino_run(opens, writeOk) ==
    IF opens
    THEN LET s == send_to_arduino("open", "1", writeOk)
         IN  [arduino |-> IF s.raised THEN "None" ELSE s.arduino,
              called |-> TRUE, send |-> s, raised |-> FALSE,
              trace |-> IF s.raised THEN <<"open", "sleep", "print", "send", "warn">>
                        ELSE <<"open", "sleep", "print", "send">>,
              slept |-> HANDSHAKE_PAUSE, warned |-> s.raised]
    ELSE [arduino |-> "None", called |-> FALSE, send |-> NoSend, raised |-> FALSE,
          trace |-> <<"open", "warn">>, slept |-> 0, warned |-> TRUE]

\* serial.Serial(...) opens the port or raises; then comes the pause, the
\* "connected" message and the stop command.  An exception out of the try body
\* prints the warning and resets the handle to None.  trace lists what ran, in
\* order; slept is the time paused between the open and the send.
setup_arduino(opens, writeOk) ==
    IF opens
    THEN LET s == send_to_arduino("open", "0", writeOk)
         IN  [arduino |-> IF s.raised THEN "None" ELSE s.arduino,
              called |-> TRUE, send |-> s, raised |-> FALSE,
              trace |-> IF s.raised THEN <<"open", "sleep", "print", "send", "warn">>
                        ELSE <<"open", "sleep", "print", "send">>,
              slept |-> HANDSHAKE_PAUSE, warned |-> s.raised]
    ELSE [arduino |-> "None", called |-> FALSE, send |-> NoSend, raised |-> FALSE,
          trace |-> <<"open", "warn">>, slept |-> 0, warned |-> TRUE]

\* ------------------------------------------------- run: the control block
\* Variant: the second branch written "elif not eyes_open", which None satisfies too.
control_truthy(car, ard, eyes_open, writeOk) ==
    IF eyes_open = "True" /\ ~car
    THEN LET s == send_to_arduino(ard, "1", writeOk)
         IN  [car_running |-> IF s.raised THEN car ELSE TRUE, arduino |-> s.arduino,
              called |-> TRUE, signal |-> "1", send |-> s, raised |-> s.raised]
    ELSE IF eyes_open # "True" /\ car
    THEN LET s == send_to_arduino(ard, "0", writeOk)
         IN  [car_running |-> IF s.raised THEN car ELSE FALSE, arduino |-> s.arduino,
              called |-> TRUE, signal |-> "0", send |-> s, raised |-> s.raised]
    ELSE [car_running |-> car, arduino |-> ard, called |-> FALSE, signal |-> "none",
          send |-> NoSend, raised |-> FALSE]

\* Variant: the command is sent on every decided frame, without the test of car_running.
control_level(car, ard, eyes_open, writeOk) ==
    IF eyes_open = "True"
    THEN LET s == send_to_arduino(ard, "1", writeOk)
         IN  [car_running |-> IF s.raised THEN car ELSE TRUE, arduino |-> s.arduino,
              called |-> TRUE, signal |-> "1", send |-> s, raised |-> s.raised]
    ELSE IF eyes_open = "False"
    THEN LET s == send_to_arduino(ard, "0", writeOk)
         IN  [car_running |-> IF s.raised THEN car ELSE FALSE, arduino |-> s.arduino,
              called |-> TRUE, signal |-> "0", send |-> s, raised |-> s.raised]
    ELSE [car_running |-> car, arduino |-> ard, called |-> FALSE, signal |-> "none",
          send |-> NoSend, raised |-> FALSE]

\* "Control car based on eye state": the if / elif on eyes_open in run.  An
\* exception leaving send_to_arduino skips the assignment that follows it.
control(car, ard, eyes_open, writeOk) ==
    IF eyes_open = "True" /\ ~car
    THEN LET s == send_to_arduino(ard, "1", writeOk)
         IN  [car_running |-> IF s.raised THEN car ELSE TRUE, arduino |-> s.arduino,
              called |-> TRUE, signal |-> "1", send |-> s, raised |-> s.raised]
    ELSE IF eyes_open = "False" /\ car
    THEN LET s == send_to_arduino(ard, "0", writeOk)
         IN  [car_running |-> IF s.raised THEN car ELSE FALSE, arduino |-> s.arduino,
              called |-> TRUE, signal |-> "0", send |-> s, raised |-> s.raised]
    ELSE [car_running |-> car, arduino |-> ard, called |-> FALSE, signal |-> "none",
          send |-> NoSend, raised |-> FALSE]

\* One pass of the while loop after a successful read: detect, then control.
iteration(car, ecc, nfc, ard, obs, writeOk) ==
    LET d == detect_eye_state(ecc, nfc, obs)
        c == control(car, ard, d.eyes_open, writeOk)
    IN  [det |-> [eyes_open |-> d.eyes_open, status |-> d.status],
         eye_closed_counter |-> d.eye_closed_counter,
         no_face_counter |-> d.no_face_counter,
         car_running |-> c.car_running, arduino |-> c.arduino,
         called |-> c.called, signal |-> c.signal, send |-> c.send, raised |-> c.raised]

\* ------------------------------------------------------------------ cleanup
\* Variant: the link is closed before the stop command is sent.
cleanup_closefirst(ard, writeOk) ==
    IF ard # "None"
    THEN LET s == send_to_arduino("closed", "0", writeOk)
         IN  [arduino |-> "closed", link |-> "closed",
              called |-> TRUE, send |-> s, closed |-> TRUE, raised |-> s.raised,
              trace |-> IF s.raised THEN <<"close", "send">>
                        ELSE <<"close", "send", "sleep", "release">>]
    ELSE [arduino |-> ard, link |-> ard, called |-> FALSE,
          send |-> NoSend, closed |-> FALSE, raised |-> FALSE, trace |-> <<"release">>]

\* Stop the car and close the link when a handle exists, then release the
\* camera.  link is the state of the handle when the stop command is sent;
\* trace lists what ran, in order.
cleanup(ard, writeOk) ==
    IF ard # "None"
    THEN LET s == send_to_arduino(ard, "0", writeOk)
         IN  [arduino |-> IF s.raised THEN s.arduino ELSE "closed", link |-> ard,
              called |-> TRUE, send |-> s, closed |-> ~s.raised, raised |-> s.raised,
              trace |-> IF s.raised THEN <<"send">>
                        ELSE <<"send", "sleep", "close", "release">>]
    ELSE [arduino |-> ard, link |-> ard, called |-> FALSE,
          send |-> NoSend, closed |-> FALSE, raised |-> FALSE, trace |-> <<"release">>]

\* ----------------------------------------------------------------- history
NoRun == [kind |-> "none", len |-> 0, eyes |-> -1, startCar |-> FALSE, startClosed |-> 0,
          calls |-> 0, writes |-> <<>>, failed |-> FALSE]

\* The run of same-kind frames after one more frame; s is the loop's send result.
NextRun(obs, called, s) ==
    LET kind == ObsKind(obs)
        same == run.kind = kind
        out  == IF called /\ s.written # "none" THEN <<s.written>> ELSE <<>>
        bad  == called /\ s.attempted /\ s.written = "none"
    IN  [kind |-> kind,
         len |-> IF same THEN run.len + 1 ELSE 1,
         eyes |-> IF same /\ run.eyes # obs.eyes THEN -1 ELSE obs.eyes,
         startCar |-> IF same THEN run.startCar ELSE car_running,
         startClosed |-> IF same THEN run.startClosed ELSE eye_closed_counter,
         calls |-> (IF same THEN run.calls ELSE 0) + (IF called THEN 1 ELSE 0),
         writes |-> (IF same THEN run.writes ELSE <<>>) \o out,
         failed |-> (same /\ run.failed) \/ bad]

\* Nothing opened, nothing cleaned up yet.
NoIo == [open_calls |-> 0, result |-> "none", setup_trace |-> <<>>, slept |-> 0,
         warned |-> FALSE, raised |-> FALSE, cleanups |-> 0, closes |-> 0,
         cleanup_trace |-> <<>>, exit_by |-> "none"]

\* io after cleanup has run, the loop having been left by way.
AfterCleanup(c, way) ==
    [io EXCEPT !.cleanups = @ + 1,
               !.closes = @ + (IF c.closed THEN 1 ELSE 0),
               !.cleanup_trace = c.trace,
               !.exit_by = way]

\* The ways out of the frame loop that reach the finally clause between two frames.
ExitWays == {"quit_key", "read_failed", "keyboard_interrupt"}

NoSent == [setup |-> NoCall, loop |-> NoCall, cleanup |-> NoCall]

Failed(called, s) == called /\ s.attempted /\ s.written = "none"

\* The last byte on the link after a call that returned s: the last byte the
\* call wrote, or the one before when it wrote nothing.
Wire(before, called, s) ==
    IF called /\ s.bytes # <<>> THEN <<s.bytes[Len(s.bytes)]>> ELSE before

\* No frame processed yet by a sleepiness detector.  nth counts the frames up
\* to 2; before is the closed-eye counter before the frame and updates the
\* number of assignments to it; cmds are the commands passed to
\* send_to_arduino and writes the bytes that went out; left is the last
\* calculate_ear call on a left eye and avg the last avg_ear.
NoEar == [kind |-> "none", milli |-> 0]

NoFrame == [nth |-> 0, faces |-> 0, below |-> 0, before |-> 0, updates |-> 0,
            cmds |-> <<>>, writes |-> <<>>, sleepy |-> FALSE, was_sleepy |-> FALSE,
            kind |-> "none",
            left |-> [A |-> 0, B |-> 0, C |-> 0, ear |-> NoEar], avg |-> NoEar]

\* ------------------------------------------- EyeControlledCarWithVoice
\* The voice variant keeps the fields, detect_eye_state, setup_arduino and
\* send_to_arduino of EyeControlledCar, and adds speech to the loop.
\* voice_active, last_voice_time and tts_engine are the program's; now is the
\* clock at the last read (current_time); the other fields record the last frame.
NoVoice == [voice_active |-> FALSE, last_voice_time |-> 0, tts_engine |-> FALSE,
            now |-> 0, events |-> <<>>, wake |-> FALSE, spoken |-> FALSE,
            was_active |-> FALSE, since |-> 0, stopped_now |-> FALSE,
            last_wake |-> -1, gap |-> -1, restarted |-> FALSE, cycled |-> FALSE,
            started_now |-> FALSE, speaking |-> FALSE]

\* say_voice: speaks when an engine exists; an error of the engine is caught.
\* runAndWait() returns when the utterance is over, so none is in progress
\* when say_voice returns.
say_voice(engine, sayOk) ==
    [called |-> TRUE, spoken |-> engine /\ sayOk, printed |-> engine /\ ~sayOk,
     raised |-> FALSE, in_progress |-> FALSE]

\* Variant: the wake-up call sits inside "if self.car_running", once per stop.
voice_control_edge(car, ard, eyes_open, writeOk, va, lvt, now) ==
    IF eyes_open = "True" /\ ~car
    THEN LET s == send_to_arduino(ard, "1", writeOk)
         IN  [car_running |-> IF s.raised THEN car ELSE TRUE, arduino |-> s.arduino,
              called |-> TRUE, signal |-> "1", send |-> s, raised |-> s.raised,
              voice_active |-> IF s.raised THEN va ELSE FALSE, last_voice_time |-> lvt,
              events |-> IF s.raised THEN <<"send">> ELSE <<"send", "say_good">>]
    ELSE IF eyes_open = "False"
    THEN LET s == IF car THEN send_to_arduino(ard, "0", writeOk) ELSE NoSend
             alert == car /\ ~s.raised
         IN  [car_running |-> IF s.raised THEN car ELSE FALSE,
              arduino |-> IF car THEN s.arduino ELSE ard,
              called |-> car, signal |-> IF car THEN "0" ELSE "none", send |-> s,
              raised |-> s.raised,
              voice_active |-> IF alert THEN TRUE ELSE va,
              last_voice_time |-> IF alert THEN now ELSE lvt,
              events |-> (IF car THEN <<"send">> ELSE <<>>)
                         \o (IF alert THEN <<"say_wake">> ELSE <<>>)]
    ELSE [car_running |-> car, arduino |-> ard, called |-> FALSE, signal |-> "none",
          send |-> NoSend, raised |-> FALSE,
          voice_active |-> va, last_voice_time |-> lvt, events |-> <<>>]

\* Variant: the interval test written >= instead of >.
voice_control_ge(car, ard, eyes_open, writeOk, va, lvt, now) ==
    IF eyes_open = "True" /\ ~car
    THEN LET s == send_to_arduino(ard, "1", writeOk)
         IN  [car_running |-> IF s.raised THEN car ELSE TRUE, arduino |-> s.arduino,
              called |-> TRUE, signal |-> "1", send |-> s, raised |-> s.raised,
              voice_active |-> IF s.raised THEN va ELSE FALSE, last_voice_time |-> lvt,
              events |-> IF s.raised THEN <<"send">> ELSE <<"send", "say_good">>]
    ELSE IF eyes_open = "False"
    THEN LET s == IF car THEN send_to_arduino(ard, "0", writeOk) ELSE NoSend
             alert == ~s.raised /\ (~va \/ (now - lvt) >= VOICE_INTERVAL)
         IN  [car_running |-> IF s.raised THEN car ELSE FALSE,
              arduino |-> IF car THEN s.arduino ELSE ard,
              called |-> car, signal |-> IF car THEN "0" ELSE "none", send |-> s,
              raised |-> s.raised,
              voice_active |-> IF alert THEN TRUE ELSE va,
              last_voice_time |-> IF alert THEN now ELSE lvt,
              events |-> (IF car THEN <<"send">> ELSE <<>>)
                         \o (IF alert THEN <<"say_wake">> ELSE <<>>)]
    ELSE [car_running |-> car, arduino |-> ard, called |-> FALSE, signal |-> "none",
          send |-> NoSend, raised |-> FALSE,
          voice_active |-> va, last_voice_time |-> lvt, events |-> <<>>]

\* Variant: the stop command is written again with every wake-up call.
voice_control_resend(car, ard, eyes_open, writeOk, va, lvt, now) ==
    IF eyes_open = "True" /\ ~car
    THEN LET s == send_to_arduino(ard, "1", writeOk)
         IN  [car_running |-> IF s.raised THEN car ELSE TRUE, arduino |-> s.arduino,
              called |-> TRUE, signal |-> "1", send |-> s, raised |-> s.raised,
              voice_active |-> IF s.raised THEN va ELSE FALSE, last_voice_time |-> lvt,
              events |-> IF s.raised THEN <<"send">> ELSE <<"send", "say_good">>]
    ELSE IF eyes_open = "False"
    THEN LET again == car \/ ~va \/ (now - lvt) > VOICE_INTERVAL
             s == IF again THEN send_to_arduino(ard, "0", writeOk) ELSE NoSend
             alert == ~s.raised /\ (~va \/ (now - lvt) > VOICE_INTERVAL)
         IN  [car_running |-> IF s.raised THEN car ELSE FALSE,
              arduino |-> IF again THEN s.arduino ELSE ard,
              called |-> again, signal |-> IF again THEN "0" ELSE "none", send |-> s,
              raised |-> s.raised,
              voice_active |-> IF alert THEN TRUE ELSE va,
              last_voice_time |-> IF alert THEN now ELSE lvt,
              events |-> (IF again THEN <<"send">> ELSE <<>>)
                         \o (IF alert THEN <<"say_wake">> ELSE <<>>)]
    ELSE [car_running |-> car, arduino |-> ard, called |-> FALSE, signal |-> "none",
          send |-> NoSend, raised |-> FALSE,
          voice_active |-> va, last_voice_time |-> lvt, events |-> <<>>]

\* Variant: the messages are spoken before the command is written.
voice_control_speakfirst(car, ard, eyes_open, writeOk, va, lvt, now) ==
    IF eyes_open = "True" /\ ~car
    THEN LET s == send_to_arduino(ard, "1", writeOk)
         IN  [car_running |-> IF s.raised THEN car ELSE TRUE, arduino |-> s.arduino,
              called |-> TRUE, signal |-> "1", send |-> s, raised |-> s.raised,
              voice_active |-> IF s.raised THEN va ELSE FALSE, last_voice_time |-> lvt,
              events |-> IF s.raised THEN <<"send">> ELSE <<"say_good", "send">>]
    ELSE IF eyes_open = "False"
    THEN LET s == IF car THEN send_to_arduino(ard, "0", writeOk) ELSE NoSend
             alert == ~s.raised /\ (~va \/ (now - lvt) > VOICE_INTERVAL)
         IN  [car_running |-> IF s.raised THEN car ELSE FALSE,
              arduino |-> IF car THEN s.arduino ELSE ard,
              called |-> car, signal |-> IF car THEN "0" ELSE "none", send |-> s,
              raised |-> s.raised,
              voice_active |-> IF alert THEN TRUE ELSE va,
              last_voice_time |-> IF alert THEN now ELSE lvt,
              events |-> (IF alert THEN <<"say_wake">> ELSE <<>>)
                         \o (IF car THEN <<"send">> ELSE <<>>)]
    ELSE [car_running |-> car, arduino |-> ard, called |-> FALSE, signal |-> "none",
          send |-> NoSend, raised |-> FALSE,
          voice_active |-> va, last_voice_time |-> lvt, events |-> <<>>]

\* Variant: starting the car leaves voice_active as it was.
voice_control_keepvoice(car, ard, eyes_open, writeOk, va, lvt, now) ==
    IF eyes_open = "True" /\ ~car
    THEN LET s == send_to_arduino(ard, "1", writeOk)
         IN  [car_running |-> IF s.raised THEN car ELSE TRUE, arduino |-> s.arduino,
              called |-> TRUE, signal |-> "1", send |-> s, raised |-> s.raised,
              voice_active |-> va, last_voice_time |-> lvt,
              events |-> IF s.raised THEN <<"send">> ELSE <<"send", "say_good">>]
    ELSE IF eyes_open = "False"
    THEN LET s == IF car THEN send_to_arduino(ard, "0", writeOk) ELSE NoSend
             alert == ~s.raised /\ (~va \/ (now - lvt) > VOICE_INTERVAL)
         IN  [car_running |-> IF s.raised THEN car ELSE FALSE,
              arduino |-> IF car THEN s.arduino ELSE ard,
              called |-> car, signal |-> IF car THEN "0" ELSE "none", send |-> s,
              raised |-> s.raised,
              voice_active |-> IF alert THEN TRUE ELSE va,
              last_voice_time |-> IF alert THEN now ELSE lvt,
              events |-> (IF car THEN <<"send">> ELSE <<>>)
                         \o (IF alert THEN <<"say_wake">> ELSE <<>>)]
    ELSE [car_running |-> car, arduino |-> ard, called |-> FALSE, signal |-> "none",
          send |-> NoSend, raised |-> FALSE,
          voice_active |-> va, last_voice_time |-> lvt, events |-> <<>>]

\* The if / elif on eyes_open in EyeControlledCarWithVoice.run.  va and lvt are
\* voice_active and last_voice_time, now is current_time.  events lists the
\* send_to_arduino and say_voice calls in the order they are made.
voice_control(car, ard, eyes_open, writeOk, va, lvt, now) ==
    IF eyes_open = "True" /\ ~car
    THEN LET s == send_to_arduino(ard, "1", writeOk)
         IN  [car_running |-> IF s.raised THEN car ELSE TRUE, arduino |-> s.arduino,
              called |-> TRUE, signal |-> "1", send |-> s, raised |-> s.raised,
              voice_active |-> IF s.raised THEN va ELSE FALSE, last_voice_time |-> lvt,
              events |-> IF s.raised THEN <<"send">> ELSE <<"send", "say_good">>]
    ELSE IF eyes_open = "False"
    THEN LET s == IF car THEN send_to_arduino(ard, "0", writeOk) ELSE NoSend
             alert == ~s.raised /\ (~va \/ (now - lvt) > VOICE_INTERVAL)
         IN  [car_running |-> IF s.raised THEN car ELSE FALSE,
              arduino |-> IF car THEN s.arduino ELSE ard,
              called |-> car, signal |-> IF car THEN "0" ELSE "none", send |-> s,
              raised |-> s.raised,
              voice_active |-> IF alert THEN TRUE ELSE va,
              last_voice_time |-> IF alert THEN now ELSE lvt,
              events |-> (IF car THEN <<"send">> ELSE <<>>)
                         \o (IF alert THEN <<"say_wake">> ELSE <<>>)]
    ELSE [car_running |-> car, arduino |-> ard, called |-> FALSE, signal |-> "none",
          send |-> NoSend, raised |-> FALSE,
          voice_active |-> va, last_voice_time |-> lvt, events |-> <<>>]

\* EyeControlledCar run beside EyeControlledCarWithVoice: its fields, the bytes
\* it wrote in the last step, and its position.
NoBase == [car_running |-> FALSE, eye_closed_counter |-> 0, no_face_counter |-> 0,
           arduino |-> "None", bytes |-> <<>>, pc |-> "init"]

\* manual_test: the line typed at the prompt, the command made of it, the bytes
\* written for it, how the command was treated, and the counts of prompts and closes.
NoManual == [input |-> <<>>, command |-> <<>>, wrote |-> <<>>, outcome |-> "none",
             inputs |-> 0, closes |-> 0]

\* SleepinessTestDetector: total_frames and alert_count are the program's; the
\* other fields record the last pass of the loop: what detect_sleepiness returned
\* and left in the counters, and the key the poll returned.
NoTest == [total_frames |-> 0, alert_count |-> 0, ran |-> FALSE, is_sleepy |-> FALSE,
           detected |-> [eye_closed_counter |-> 0, no_face_counter |-> 0],
           before |-> [eye_closed_counter |-> 0, no_face_counter |-> 0],
           key |-> "none"]

\* -------------------------------------------------------------------- Init
\* The fields as __init__ sets them before it calls setup_arduino.
Init ==
    /\ pc = "init"
    /\ eye_closed_counter = 0
    /\ no_face_counter = 0
    /\ car_running = FALSE
    /\ arduino = "None"
    /\ det = NoDet
    /\ sent = NoSent
    /\ write_failed = FALSE
    /\ lastIssued = "none"
    /\ run = NoRun
    /\ prev = [kind |-> "none", len |-> 0]
    /\ nl = [car_running |-> FALSE, eye_closed_counter |-> 0, no_face_counter |-> 0,
             raised |-> FALSE, wrote |-> FALSE]
    /\ io = NoIo
    /\ voice = NoVoice
    /\ last_written = <<>>
    /\ frame_counter = 0
    /\ sleepy_counter = 0
    /\ frame = NoFrame
    /\ base = NoBase
    /\ manual = NoManual
    /\ test = NoTest

\* ----------------------------------------------------------------- actions
\* __init__ calls setup_arduino.
SetupArduino ==
    /\ pc = "init"
    /\ \E opens \in BOOLEAN, writeOk \in BOOLEAN :
         LET r == setup_arduino(opens, writeOk)
         IN  /\ arduino' = r.arduino
             /\ sent' = [NoSent EXCEPT !.setup =
                             IF r.called THEN Call("open", "0", r.send, write_failed) ELSE NoCall]
             /\ write_failed' = (write_failed \/ Failed(r.called, r.send))
             /\ io' = [io EXCEPT !.open_calls = @ + 1,
                                 !.result = IF opens THEN "opened" ELSE "failed",
                                 !.setup_trace = r.trace,
                                 !.slept = r.slept,
                                 !.warned = r.warned,
                                 !.raised = r.raised,
                                 !.exit_by = IF r.raised THEN "setup_error" ELSE @]
             /\ last_written' = Wire(last_written, r.called, r.send)
             /\ pc' = IF r.raised THEN "exit" ELSE "camera"
    /\ UNCHANGED <<eye_closed_counter, no_face_counter, car_running, det, lastIssued,
                   run, prev, nl, voice>>
    /\ UNCHANGED sleepiness
    /\ UNCHANGED tools
    /\ UNCHANGED base

\* __init__ opens the webcam, and leaves through sys.exit() when it cannot.
OpenCamera ==
    /\ pc = "camera"
    /\ \E opened \in BOOLEAN :
         /\ pc' = IF opened THEN "loop" ELSE "exit"
         /\ io' = [io EXCEPT !.exit_by = IF opened THEN @ ELSE "no_camera"]
    /\ sent' = NoSent
    /\ UNCHANGED <<eye_closed_counter, no_face_counter, car_running, arduino, det,
                   write_failed, lastIssued, run, prev, nl, voice, last_written>>
    /\ UNCHANGED sleepiness
    /\ UNCHANGED tools
    /\ UNCHANGED base

\* One pass of the loop in run: a frame is read and processed, up to the key poll.
\* An exception out of the body ends the loop, and the finally clause runs cleanup.
RunFrame ==
    /\ pc = "loop"
    /\ \E obs \in Observations, writeOk \in BOOLEAN, cleanOk \in BOOLEAN :
         /\ (run.len < MaxRun \/ ObsKind(obs) # run.kind)
         /\ LET r     == iteration(car_running, eye_closed_counter, no_face_counter,
                                   arduino, obs, writeOk)
                t     == iteration(nl.car_running, nl.eye_closed_counter,
                                   nl.no_face_counter, "None", obs, writeOk)
                leave == r.raised
                c     == cleanup(r.arduino, cleanOk)
                f1    == write_failed \/ Failed(r.called, r.send)
            IN  /\ eye_closed_counter' = r.eye_closed_counter
                /\ no_face_counter' = r.no_face_counter
                /\ car_running' = r.car_running
                /\ det' = r.det
                /\ arduino' = IF leave THEN c.arduino ELSE r.arduino
                /\ sent' = [setup |-> NoCall,
                            loop |-> IF r.called THEN Call(arduino, r.signal, r.send, write_failed)
                                     ELSE NoCall,
                            cleanup |-> IF leave /\ c.called THEN Call(c.link, "0", c.send, f1)
                                        ELSE NoCall]
                /\ write_failed' = (f1 \/ (leave /\ Failed(c.called, c.send)))
                /\ lastIssued' = IF r.called THEN r.signal ELSE lastIssued
                /\ run' = NextRun(obs, r.called, r.send)
                /\ prev' = IF ObsKind(obs) = run.kind THEN prev
                           ELSE [kind |-> run.kind, len |-> run.len]
                /\ nl' = [car_running |-> t.car_running,
                          eye_closed_counter |-> t.eye_closed_counter,
                          no_face_counter |-> t.no_face_counter,
                          raised |-> nl.raised \/ t.raised,
                          wrote |-> nl.wrote \/ (t.called /\ t.send.written # "none")]
                /\ io' = IF leave THEN AfterCleanup(c, "exception") ELSE io
                /\ last_written' = Wire(Wire(last_written, r.called, r.send),
                                        leave /\ c.called, c.send)
                /\ pc' = IF leave THEN "done" ELSE "loop"
    /\ UNCHANGED voice
    /\ UNCHANGED sleepiness
    /\ UNCHANGED tools
    /\ UNCHANGED base

\* The ways out of the loop between two frames: the key poll returns the quit key
\* (break), the next cap.read() returns ret = False (break), or KeyboardInterrupt
\* arrives while waiting; all of them reach the finally clause, which runs cleanup.
LeaveLoop ==
    /\ pc = "loop"
    /\ \E cleanOk \in BOOLEAN, way \in ExitWays :
         LET c == cleanup(arduino, cleanOk)
         IN  /\ arduino' = c.arduino
             /\ sent' = [NoSent EXCEPT !.cleanup =
                             IF c.called THEN Call(c.link, "0", c.send, write_failed) ELSE NoCall]
             /\ write_failed' = (write_failed \/ Failed(c.called, c.send))
             /\ io' = AfterCleanup(c, way)
             /\ last_written' = Wire(last_written, c.called, c.send)
    /\ pc' = "done"
    /\ UNCHANGED <<eye_closed_counter, no_face_counter, car_running, det, lastIssued,
                   run, prev, nl, voice>>
    /\ UNCHANGED sleepiness
    /\ UNCHANGED tools
    /\ UNCHANGED base

Next == SetupArduino \/ OpenCamera \/ RunFrame \/ LeaveLoop

Spec == Init /\ [][Next]_vars

\* ------------------------------------- EyeControlledCarWithVoice: actions
\* __init__ of the voice variant up to setup_arduino: the same fields, plus
\* voice_active = False and the engine that setup_voice got (or None).
InitVoice ==
    /\ pc = "init"
    /\ eye_closed_counter = 0
    /\ no_face_counter = 0
    /\ car_running = FALSE
    /\ arduino = "None"
    /\ det = NoDet
    /\ sent = NoSent
    /\ write_failed = FALSE
    /\ lastIssued = "none"
    /\ run = NoRun
    /\ prev = [kind |-> "none", len |-> 0]
    /\ nl = [car_running |-> FALSE, eye_closed_counter |-> 0, no_face_counter |-> 0,
             raised |-> FALSE, wrote |-> FALSE]
    /\ io = NoIo
    /\ \E engine \in BOOLEAN :
         voice = [NoVoice EXCEPT !.tts_engine = engine, !.now = StartTime]
    /\ last_written = <<>>
    /\ frame_counter = 0
    /\ sleepy_counter = 0
    /\ frame = NoFrame
    /\ base = NoBase
    /\ manual = NoManual
    /\ test = NoTest

\* __init__ of the voice variant calls its setup_arduino, which is the code of
\* the base program; the base program beside it opens the same port.
VoiceSetupArduino ==
    /\ pc = "init"
    /\ \E opens \in BOOLEAN, writeOk \in BOOLEAN :
         LET r == setup_arduino(opens, writeOk)
             b == setup_arduino(opens, writeOk)
         IN  /\ arduino' = r.arduino
             /\ sent' = [NoSent EXCEPT !.setup =
                             IF r.called THEN Call("open", "0", r.send, write_failed) ELSE NoCall]
             /\ write_failed' = (write_failed \/ Failed(r.called, r.send))
             /\ io' = [io EXCEPT !.open_calls = @ + 1,
                                 !.result = IF opens THEN "opened" ELSE "failed",
                                 !.setup_trace = r.trace,
                                 !.slept = r.slept,
                                 !.warned = r.warned,
                                 !.raised = r.raised,
                                 !.exit_by = IF r.raised THEN "setup_error" ELSE @]
             /\ last_written' = Wire(last_written, r.called, r.send)
             /\ pc' = IF r.raised THEN "exit" ELSE "camera"
             /\ base' = [base EXCEPT !.arduino = b.arduino,
                                     !.bytes = IF b.called THEN b.send.bytes ELSE <<>>,
                                     !.pc = IF b.raised THEN "exit" ELSE "camera"]
    /\ UNCHANGED <<eye_closed_counter, no_face_counter, car_running, det, lastIssued,
                   run, prev, nl, voice>>
    /\ UNCHANGED sleepiness
    /\ UNCHANGED tools

\* __init__ opens the webcam (sys.exit() when it cannot) and speaks the
\* start-up message.
VoiceOpenCamera ==
    /\ pc = "camera"
    /\ \E opened \in BOOLEAN, sayOk \in BOOLEAN :
         /\ pc' = IF opened THEN "loop" ELSE "exit"
         /\ io' = [io EXCEPT !.exit_by = IF opened THEN @ ELSE "no_camera"]
         /\ voice' = [voice EXCEPT
                         !.events = IF opened THEN <<"say_ready">> ELSE <<>>,
                         !.spoken = opened /\ say_voice(voice.tts_engine, sayOk).spoken,
                         !.speaking = opened
                                      /\ say_voice(voice.tts_engine, sayOk).in_progress]
         /\ base' = [base EXCEPT !.bytes = <<>>,
                                 !.pc = IF opened THEN "loop" ELSE "exit"]
    /\ sent' = NoSent
    /\ UNCHANGED <<eye_closed_counter, no_face_counter, car_running, arduino, det,
                   write_failed, lastIssued, run, prev, nl, last_written>>
    /\ UNCHANGED sleepiness
    /\ UNCHANGED tools

\* One pass of the loop of the voice variant: read, detect, read the clock,
\* control with speech.  The run history of the base program is not kept here.
\* The base program beside it runs its own pass on the same frame and link.
VoiceRunFrame ==
    /\ pc = "loop"
    /\ \E obs \in Observations, writeOk \in BOOLEAN, cleanOk \in BOOLEAN,
          sayOk \in BOOLEAN, dt \in 0..MaxStep :
         /\ voice.now + dt <= MaxTime
         /\ (ObsKind(obs) = "closed" => eye_closed_counter < MaxRun)
         /\ (ObsKind(obs) = "noface" => no_face_counter < MaxRun)
         /\ LET now   == voice.now + dt
                d     == detect_eye_state(eye_closed_counter, no_face_counter, obs)
                r     == voice_control(car_running, arduino, d.eyes_open, writeOk,
                                       voice.voice_active, voice.last_voice_time, now)
                leave == r.raised
                c     == cleanup(r.arduino, cleanOk)
                f1    == write_failed \/ Failed(r.called, r.send)
                t     == iteration(base.car_running, base.eye_closed_counter,
                                   base.no_face_counter, base.arduino, obs, writeOk)
                tc    == cleanup(t.arduino, cleanOk)
                wake  == \E i \in DOMAIN r.events : r.events[i] = "say_wake"
                good  == \E i \in DOMAIN r.events : r.events[i] = "say_good"
            IN  /\ eye_closed_counter' = d.eye_closed_counter
                /\ no_face_counter' = d.no_face_counter
                /\ car_running' = r.car_running
                /\ det' = [eyes_open |-> d.eyes_open, status |-> d.status]
                /\ arduino' = IF leave THEN c.arduino ELSE r.arduino
                /\ sent' = [setup |-> NoCall,
                            loop |-> IF r.called
                                     THEN Call(arduino, r.signal, r.send, write_failed)
                                     ELSE NoCall,
                            cleanup |-> IF leave /\ c.called
                                        THEN Call(c.link, "0", c.send, f1) ELSE NoCall]
                /\ write_failed' = (f1 \/ (leave /\ Failed(c.called, c.send)))
                /\ lastIssued' = IF r.called THEN r.signal ELSE lastIssued
                /\ io' = IF leave THEN AfterCleanup(c, "exception") ELSE io
                /\ voice' = [voice_active |-> r.voice_active,
                             last_voice_time |-> r.last_voice_time,
                             tts_engine |-> voice.tts_engine,
                             now |-> now,
                             events |-> r.events,
                             wake |-> wake,
                             spoken |-> (wake \/ good)
                                        /\ say_voice(voice.tts_engine, sayOk).spoken,
                             was_active |-> voice.voice_active,
                             since |-> now - voice.last_voice_time,
                             stopped_now |-> car_running /\ ~r.car_running,
                             last_wake |-> IF wake THEN now ELSE voice.last_wake,
                             gap |-> IF wake /\ voice.last_wake # -1
                                     THEN now - voice.last_wake ELSE -1,
                             restarted |-> IF wake THEN FALSE
                                           ELSE voice.restarted
                                                \/ (~car_running /\ r.car_running),
                             cycled |-> wake /\ voice.restarted,
                             started_now |-> ~car_running /\ r.car_running,
                             speaking |-> (wake \/ good)
                                          /\ say_voice(voice.tts_engine, sayOk).in_progress]
                /\ last_written' = Wire(Wire(last_written, r.called, r.send),
                                        leave /\ c.called, c.send)
                /\ pc' = IF leave THEN "done" ELSE "loop"
                /\ base' = IF base.pc # "loop" THEN base
                           ELSE [car_running |-> t.car_running,
                                 eye_closed_counter |-> t.eye_closed_counter,
                                 no_face_counter |-> t.no_face_counter,
                                 arduino |-> IF t.raised THEN tc.arduino ELSE t.arduino,
                                 bytes |-> (IF t.called THEN t.send.bytes ELSE <<>>)
                                           \o (IF t.raised /\ tc.called
                                               THEN tc.send.bytes ELSE <<>>),
                                 pc |-> IF t.raised THEN "done" ELSE "loop"]
    /\ UNCHANGED <<run, prev, nl>>
    /\ UNCHANGED sleepiness
    /\ UNCHANGED tools

\* The ways out of the loop of the voice variant: cleanup of the link as in the
\* base program, then the shutdown message.
VoiceLeaveLoop ==
    /\ pc = "loop"
    /\ \E cleanOk \in BOOLEAN, way \in ExitWays, sayOk \in BOOLEAN :
         LET c == cleanup(arduino, cleanOk)
         IN  /\ arduino' = c.arduino
             /\ sent' = [NoSent EXCEPT !.cleanup =
                             IF c.called THEN Call(c.link, "0", c.send, write_failed)
                             ELSE NoCall]
             /\ write_failed' = (write_failed \/ Failed(c.called, c.send))
             /\ io' = AfterCleanup(c, way)
             /\ voice' = [voice EXCEPT
                             !.events = IF c.raised THEN <<>> ELSE <<"say_shutdown">>,
                             !.wake = FALSE,
                             !.spoken = ~c.raised
                                        /\ say_voice(voice.tts_engine, sayOk).spoken,
                             !.stopped_now = FALSE,
                             !.gap = -1,
                             !.cycled = FALSE,
                             !.started_now = FALSE,
                             !.speaking = ~c.raised
                                          /\ say_voice(voice.tts_engine, sayOk).in_progress]
             /\ last_written' = Wire(last_written, c.called, c.send)
             /\ base' = IF base.pc # "loop" THEN base
                        ELSE LET tc == cleanup(base.arduino, cleanOk)
                             IN  [base EXCEPT !.arduino = tc.arduino,
                                              !.bytes = IF tc.called THEN tc.send.bytes
                                                        ELSE <<>>,
                                              !.pc = "done"]
    /\ pc' = "done"
    /\ UNCHANGED <<eye_closed_counter, no_face_counter, car_running, det, lastIssued,
                   run, prev, nl>>
    /\ UNCHANGED sleepiness
    /\ UNCHANGED tools

NextVoice == VoiceSetupArduino \/ VoiceOpenCamera \/ VoiceRunFrame \/ VoiceLeaveLoop

SpecVoice == InitVoice /\ [][NextVoice]_vars

\* ------------------------------------------------ the sleepiness detectors
\* SleepinessDetector (sleepiness_detection.py) and SimpleSleepinessDetector
\* (simple_sleepiness_detection.py) have the same setup_arduino,
\* send_to_arduino and cleanup, which differ from EyeControlledCar's in the
\* command they send: '1' on connecting and '1' on shutdown.

\* setup_arduino of the detectors: open, pause, message, send '1'.
detector_setup_arduino(opens, writeOk) ==
    IF opens
    THEN LET s == send_to_arduino("open", "1", writeOk)
         IN  [arduino |-> IF s.raised THEN "None" ELSE s.arduino,
              called |-> TRUE, signal |-> "1", send |-> s, raised |-> FALSE,
              trace |-> IF s.raised THEN <<"open", "sleep", "print", "send", "warn">>
                        ELSE <<"open", "sleep", "print", "send">>,
              slept |-> HANDSHAKE_PAUSE, warned |-> s.raised]
    ELSE [arduino |-> "None", called |-> FALSE, signal |-> "none", send |-> NoSend,
          raised |-> FALSE, trace |-> <<"open", "warn">>, slept |-> 0, warned |-> TRUE]

\* cleanup of the detectors: with a handle, send '1', pause, close; then release
\* the camera.
detector_cleanup(ard, writeOk) ==
    IF ard # "None"
    THEN LET s == send_to_arduino(ard, "1", writeOk)
         IN  [arduino |-> IF s.raised THEN s.arduino ELSE "closed", link |-> ard,
              called |-> TRUE, signal |-> "1", send |-> s, closed |-> ~s.raised,
              raised |-> s.raised,
              trace |-> IF s.raised THEN <<"send">>
                        ELSE <<"send", "sleep", "close", "release">>]
    ELSE [arduino |-> ard, link |-> ard, called |-> FALSE, signal |-> "none",
          send |-> NoSend, closed |-> FALSE, raised |-> FALSE, trace |-> <<"release">>]

\* ------------------------------------------- SleepinessDetector: the EAR
\* Six landmark points of one eye, p1..p6 around the contour (eye_points[0..5]):
\* the corners p1 and p4 are w apart, the lid points sit h above and below the
\* corner line, and p6 is shifted sideways by s.
Eye(w, h, s) ==
    << <<0, 0>>, <<1, h>>, <<2, h>>, <<w, 0>>, <<2, 0 - h>>, <<1 + s, 0 - h>> >>

EyeShapes == {Eye(w, h, s) : w \in 0..MaxWidth, h \in 0..MaxLid, s \in 0..MaxSkew}

\* The largest r in lo..hi with r * r <= n.
RECURSIVE isqrt(_, _, _)
isqrt(n, lo, hi) ==
    IF lo >= hi THEN lo
    ELSE LET mid == (lo + hi + 1) \div 2
         IN  IF mid * mid <= n THEN isqrt(n, mid, hi) ELSE isqrt(n, lo, mid - 1)

Abs(x) == IF x < 0 THEN 0 - x ELSE x

\* distance.euclidean(p, q), in thousandths, rounded down.
euclidean(p, q) ==
    LET dx == p[1] - q[1]
        dy == p[2] - q[2]
    IN  isqrt(Scale * Scale * (dx * dx + dy * dy), 0, Scale * (Abs(dx) + Abs(dy)))

\* A, B and C of calculate_ear.
eye_distances(eye_points) ==
    [A |-> euclidean(eye_points[2], eye_points[6]),
     B |-> euclidean(eye_points[3], eye_points[5]),
     C |-> euclidean(eye_points[1], eye_points[4])]

\* Variant: the sum of the vertical distances over C, without the factor 2.
calculate_ear_nohalf(eye_points) ==
    LET d == eye_distances(eye_points)
    IN  IF d.C = 0
        THEN IF d.A + d.B = 0 THEN [kind |-> "nan", milli |-> 0]
             ELSE [kind |-> "inf", milli |-> 0]
        ELSE [kind |-> "num", milli |-> ((d.A + d.B) * Scale) \div d.C]

\* ear = (A + B) / (2.0 * C) on numpy floats: a number, or inf / nan when C = 0
\* (numpy divides by zero with a warning, not an exception).
calculate_ear(eye_points) ==
    LET d == eye_distances(eye_points)
    IN  IF d.C = 0
        THEN IF d.A + d.B = 0 THEN [kind |-> "nan", milli |-> 0]
             ELSE [kind |-> "inf", milli |-> 0]
        ELSE [kind |-> "num", milli |-> ((d.A + d.B) * Scale) \div (2 * d.C)]

\* avg_ear = (left_ear + right_ear) / 2.0
average_ear(l, r) ==
    IF l.kind = "nan" \/ r.kind = "nan" THEN [kind |-> "nan", milli |-> 0]
    ELSE IF l.kind = "inf" \/ r.kind = "inf" THEN [kind |-> "inf", milli |-> 0]
    ELSE [kind |-> "num", milli |-> (l.milli + r.milli) \div 2]

\* avg_ear < threshold: false for inf and for nan.
Below(ear, threshold) == ear.kind = "num" /\ ear.milli < threshold

\* The faces a frame can show, by their landmarks: wide open eyes, closed eyes,
\* narrow closed eyes (whose skewed right eye keeps the average above the
\* threshold), and landmarks that all coincide on the corner line.
FaceSet == {[w |-> 2, h |-> 1], [w |-> 2, h |-> 0], [w |-> 1, h |-> 0], [w |-> 0, h |-> 0]}

\* extract_eye_points for the two eyes of a face.
LeftEye(face) == Eye(face.w, face.h, 0)

RightEye(face) == Eye(face.w, face.h, 1)

\* What the loop body computes from the landmarks of a face: the distances of
\* the left eye, left_ear, right_ear and avg_ear.
FaceEars ==
    [face \in FaceSet |->
        LET d     == eye_distances(LeftEye(face))
            left  == calculate_ear(LeftEye(face))
            right == calculate_ear(RightEye(face))
        IN  [A |-> d.A, B |-> d.B, C |-> d.C, left_ear |-> left, right_ear |-> right,
             avg_ear |-> average_ear(left, right)]]

\* The frames: faces = self.detector(gray), from none to MaxFaces faces.
RECURSIVE FaceLists(_)
FaceLists(n) ==
    IF n = 0 THEN {<<>>}
    ELSE LET shorter == FaceLists(n - 1)
         IN  shorter \cup {Append(l, f) : l \in {x \in shorter : Len(x) = n - 1}, f \in FaceSet}

Frames == FaceLists(MaxFaces)

\* calculate_ear applied to every landmark set of EyeShapes.
EarTable == [e \in EyeShapes |-> calculate_ear(e)]

\* ------------------------------------ SleepinessDetector.process_frame
\* Variant: the alert test written > instead of >=.
check_eyes_gt(fc, sc, ard, avg_ear, writeOk) ==
    IF Below(avg_ear, EAR_THRESHOLD)
    THEN IF fc + 1 > CONSECUTIVE_FRAMES
         THEN LET s == send_to_arduino(ard, "0", writeOk)
              IN  [frame_counter |-> fc + 1, sleepy_counter |-> sc + 1,
                   arduino |-> s.arduino, called |-> TRUE, signal |-> "0",
                   send |-> s, raised |-> s.raised]
         ELSE [frame_counter |-> fc + 1, sleepy_counter |-> sc, arduino |-> ard,
               called |-> FALSE, signal |-> "none", send |-> NoSend, raised |-> FALSE]
    ELSE LET s == send_to_arduino(ard, "1", writeOk)
         IN  [frame_counter |-> 0, sleepy_counter |-> sc, arduino |-> s.arduino,
              called |-> TRUE, signal |-> "1", send |-> s, raised |-> s.raised]

\* "Check if eyes are closed": the if / else on avg_ear in the body of the loop
\* over the faces.
check_eyes(fc, sc, ard, avg_ear, writeOk) ==
    IF Below(avg_ear, EAR_THRESHOLD)
    THEN IF fc + 1 >= CONSECUTIVE_FRAMES
         THEN LET s == send_to_arduino(ard, "0", writeOk)
              IN  [frame_counter |-> fc + 1, sleepy_counter |-> sc + 1,
                   arduino |-> s.arduino, called |-> TRUE, signal |-> "0",
                   send |-> s, raised |-> s.raised]
         ELSE [frame_counter |-> fc + 1, sleepy_counter |-> sc, arduino |-> ard,
               called |-> FALSE, signal |-> "none", send |-> NoSend, raised |-> FALSE]
    ELSE LET s == send_to_arduino(ard, "1", writeOk)
         IN  [frame_counter |-> 0, sleepy_counter |-> sc, arduino |-> s.arduino,
              called |-> TRUE, signal |-> "1", send |-> s, raised |-> s.raised]

\* "for face in faces": the body runs once per face, in order, on the fields
\* the face before left behind; with no face it does not run at all.
RECURSIVE process_faces(_, _, _, _)
process_faces(st, faces, i, writeOk) ==
    IF i > Len(faces) \/ st.raised THEN st
    ELSE LET d     == FaceEars[faces[i]]
             left  == d.left_ear
             avg   == d.avg_ear
             r     == CHOOSE x \in {check_eyes(st.frame_counter, st.sleepy_counter,
                                                st.arduino, avg, writeOk)} : TRUE
         IN  process_faces(
                 [frame_counter |-> r.frame_counter,
                  sleepy_counter |-> r.sleepy_counter,
                  arduino |-> r.arduino,
                  updates |-> st.updates + 1,
                  below |-> st.below + (IF Below(avg, EAR_THRESHOLD) THEN 1 ELSE 0),
                  cmds |-> st.cmds \o (IF r.called THEN <<r.signal>> ELSE <<>>),
                  writes |-> st.writes \o r.send.bytes,
                  failed |-> st.failed \/ Failed(r.called, r.send),
                  left |-> [A |-> d.A, B |-> d.B, C |-> d.C, ear |-> left],
                  avg |-> avg,
                  raised |-> r.raised],
                 faces, i + 1, writeOk)

process_frame(fc, sc, ard, faces, writeOk) ==
    process_faces([frame_counter |-> fc, sleepy_counter |-> sc, arduino |-> ard,
                   updates |-> 0, below |-> 0, cmds |-> <<>>, writes |-> <<>>,
                   failed |-> FALSE, left |-> NoFrame.left, avg |-> NoEar,
                   raised |-> FALSE],
                  faces, 1, writeOk)

\* --------------------------------------------- SimpleSleepinessDetector
\* detect_sleepiness returns (is_sleepy, status) and updates the counters.
detect_sleepiness(ecc, nfc, obs) ==
    IF ~obs.face
    THEN [is_sleepy |-> FALSE,
          status |-> IF nfc + 1 > FACE_ABSENT_THRESHOLD THEN "no_face" ELSE "searching",
          eye_closed_counter |-> 0, no_face_counter |-> nfc + 1]
    ELSE IF obs.eyes < 2
         THEN [is_sleepy |-> ecc + 1 > SIMPLE_EYE_CLOSED_THRESHOLD,
               status |-> IF ecc + 1 > SIMPLE_EYE_CLOSED_THRESHOLD THEN "alert"
                          ELSE "possibly_closed",
               eye_closed_counter |-> ecc + 1, no_face_counter |-> 0]
         ELSE [is_sleepy |-> FALSE, status |-> "open",
               eye_closed_counter |-> 0, no_face_counter |-> 0]

\* One pass of the loop in SimpleSleepinessDetector.run: detect, then send '0'
\* when sleepy and '1' otherwise, on every frame.
simple_iteration(ecc, nfc, ard, obs, writeOk) ==
    LET d == detect_sleepiness(ecc, nfc, obs)
        signal == IF d.is_sleepy THEN "0" ELSE "1"
        s == send_to_arduino(ard, signal, writeOk)
    IN  [is_sleepy |-> d.is_sleepy, status |-> d.status,
         eye_closed_counter |-> d.eye_closed_counter,
         no_face_counter |-> d.no_face_counter,
         arduino |-> s.arduino, called |-> TRUE, signal |-> signal, send |-> s,
         raised |-> s.raised]

\* ------------------------------------------ the sleepiness detectors: actions
\* __init__ of either detector up to setup_arduino.
InitDetector ==
    /\ pc = "init"
    /\ eye_closed_counter = 0
    /\ no_face_counter = 0
    /\ car_running = FALSE
    /\ arduino = "None"
    /\ det = NoDet
    /\ sent = NoSent
    /\ write_failed = FALSE
    /\ lastIssued = "none"
    /\ run = NoRun
    /\ prev = [kind |-> "none", len |-> 0]
    /\ nl = [car_running |-> FALSE, eye_closed_counter |-> 0, no_face_counter |-> 0,
             raised |-> FALSE, wrote |-> FALSE]
    /\ io = NoIo
    /\ voice = NoVoice
    /\ last_written = <<>>
    /\ frame_counter = 0
    /\ sleepy_counter = 0
    /\ frame = NoFrame
    /\ base = NoBase
    /\ manual = NoManual
    /\ test = NoTest

\* The variables of EyeControlledCar that the detectors do not have.
car == <<car_running, det, lastIssued, run, prev, nl, voice>>

\* __init__ calls setup_arduino.
DetectorSetupArduino ==
    /\ pc = "init"
    /\ \E opens \in BOOLEAN, writeOk \in BOOLEAN :
         LET r == detector_setup_arduino(opens, writeOk)
         IN  /\ arduino' = r.arduino
             /\ sent' = [NoSent EXCEPT !.setup =
                             IF r.called THEN Call("open", r.signal, r.send, write_failed)
                             ELSE NoCall]
             /\ write_failed' = (write_failed \/ Failed(r.called, r.send))
             /\ io' = [io EXCEPT !.open_calls = @ + 1,
                                 !.result = IF opens THEN "opened" ELSE "failed",
                                 !.setup_trace = r.trace,
                                 !.slept = r.slept,
                                 !.warned = r.warned,
                                 !.raised = r.raised,
                                 !.exit_by = IF r.raised THEN "setup_error" ELSE @]
             /\ last_written' = Wire(last_written, r.called, r.send)
             /\ pc' = IF r.raised THEN "exit" ELSE "camera"
    /\ UNCHANGED <<eye_closed_counter, no_face_counter>>
    /\ UNCHANGED car
    /\ UNCHANGED base
    /\ UNCHANGED sleepiness
    /\ UNCHANGED tools

\* __init__ opens the webcam, and leaves through sys.exit() when it cannot.
DetectorOpenCamera ==
    /\ pc = "camera"
    /\ \E opened \in BOOLEAN :
         /\ pc' = IF opened THEN "loop" ELSE "exit"
         /\ io' = [io EXCEPT !.exit_by = IF opened THEN @ ELSE "no_camera"]
    /\ sent' = NoSent
    /\ UNCHANGED <<eye_closed_counter, no_face_counter, arduino, write_failed,
                   last_written>>
    /\ UNCHANGED car
    /\ UNCHANGED base
    /\ UNCHANGED sleepiness
    /\ UNCHANGED tools

\* The ways out of either detector's loop; the finally clause runs cleanup.
DetectorLeaveLoop ==
    /\ pc = "loop"
    /\ \E cleanOk \in BOOLEAN, way \in ExitWays :
         LET c == detector_cleanup(arduino, cleanOk)
         IN  /\ arduino' = c.arduino
             /\ sent' = [NoSent EXCEPT !.cleanup =
                             IF c.called THEN Call(c.link, c.signal, c.send, write_failed)
                             ELSE NoCall]
             /\ write_failed' = (write_failed \/ Failed(c.called, c.send))
             /\ io' = AfterCleanup(c, way)
             /\ last_written' = Wire(last_written, c.called, c.send)
    /\ pc' = "done"
    /\ UNCHANGED <<eye_closed_counter, no_face_counter>>
    /\ UNCHANGED car
    /\ UNCHANGED base
    /\ UNCHANGED sleepiness
    /\ UNCHANGED tools

\* One pass of the loop in SleepinessDetector.run: a frame is read and
\* process_frame runs on it.
ProcessFrame ==
    /\ pc = "loop"
    /\ \E faces \in Frames, writeOk \in BOOLEAN :
       \E r \in {process_frame(frame_counter, sleepy_counter, arduino, faces, writeOk)} :
       \E cleanOk \in IF r.raised THEN BOOLEAN ELSE {TRUE} :
         LET leave == r.raised
             c     == detector_cleanup(r.arduino, cleanOk)
             f1    == write_failed \/ r.failed
             lw    == IF r.writes # <<>> THEN <<r.writes[Len(r.writes)]>>
                      ELSE last_written
         IN  /\ r.frame_counter <= MaxCount
             /\ r.sleepy_counter <= MaxSleepy
             /\ frame_counter' = r.frame_counter
             /\ sleepy_counter' = r.sleepy_counter
             /\ arduino' = IF leave THEN c.arduino ELSE r.arduino
             /\ sent' = [NoSent EXCEPT !.cleanup =
                             IF leave /\ c.called THEN Call(c.link, c.signal, c.send, f1)
                             ELSE NoCall]
             /\ write_failed' = (f1 \/ (leave /\ Failed(c.called, c.send)))
             /\ last_written' = Wire(lw, leave /\ c.called, c.send)
             /\ frame' = [nth |-> IF frame.nth < 2 THEN frame.nth + 1 ELSE 2,
                          faces |-> Len(faces),
                          below |-> r.below,
                          before |-> frame_counter,
                          updates |-> r.updates,
                          cmds |-> r.cmds,
                          writes |-> r.writes,
                          sleepy |-> \E i \in DOMAIN r.cmds : r.cmds[i] = "0",
                          was_sleepy |-> frame.sleepy,
                          kind |-> IF Len(faces) = 0 THEN "noface"
                                   ELSE IF r.below > 0 THEN "closed" ELSE "open",
                          left |-> r.left,
                          avg |-> r.avg]
             /\ io' = IF leave THEN AfterCleanup(c, "exception") ELSE io
             /\ pc' = IF leave THEN "done" ELSE "loop"
    /\ UNCHANGED <<eye_closed_counter, no_face_counter>>
    /\ UNCHANGED car
    /\ UNCHANGED base
    /\ UNCHANGED tools

NextSleepiness ==
    DetectorSetupArduino \/ DetectorOpenCamera \/ ProcessFrame \/ DetectorLeaveLoop

SpecSleepiness == InitDetector /\ [][NextSleepiness]_vars

\* One pass of the loop in SimpleSleepinessDetector.run, up to the key poll.
SimpleRunFrame ==
    /\ pc = "loop"
    /\ \E obs \in Observations, writeOk \in BOOLEAN, cleanOk \in BOOLEAN :
         LET r     == simple_iteration(eye_closed_counter, no_face_counter, arduino,
                                       obs, writeOk)
             leave == r.raised
             c     == detector_cleanup(r.arduino, cleanOk)
             f1    == write_failed \/ Failed(r.called, r.send)
         IN  /\ r.eye_closed_counter <= MaxCount
             /\ r.no_face_counter <= MaxAbsent
             /\ eye_closed_counter' = r.eye_closed_counter
             /\ no_face_counter' = r.no_face_counter
             /\ arduino' = IF leave THEN c.arduino ELSE r.arduino
             /\ sent' = [setup |-> NoCall,
                         loop |-> IF r.called
                                  THEN Call(arduino, r.signal, r.send, write_failed)
                                  ELSE NoCall,
                         cleanup |-> IF leave /\ c.called
                                     THEN Call(c.link, c.signal, c.send, f1) ELSE NoCall]
             /\ write_failed' = (f1 \/ (leave /\ Failed(c.called, c.send)))
             /\ last_written' = Wire(Wire(last_written, r.called, r.send),
                                     leave /\ c.called, c.send)
             /\ frame' = [NoFrame EXCEPT
                             !.nth = IF frame.nth < 2 THEN frame.nth + 1 ELSE 2,
                             !.faces = IF obs.face THEN 1 ELSE 0,
                             !.before = eye_closed_counter,
                             !.updates = 1,
                             !.cmds = IF r.called THEN <<r.signal>> ELSE <<>>,
                             !.writes = r.send.bytes,
                             !.sleepy = r.is_sleepy,
                             !.was_sleepy = frame.sleepy,
                             !.kind = ObsKind(obs)]
             /\ io' = IF leave THEN AfterCleanup(c, "exception") ELSE io
             /\ pc' = IF leave THEN "done" ELSE "loop"
    /\ UNCHANGED <<frame_counter, sleepy_counter>>
    /\ UNCHANGED car
    /\ UNCHANGED base
    /\ UNCHANGED tools

NextSimple ==
    DetectorSetupArduino \/ DetectorOpenCamera \/ SimpleRunFrame \/ DetectorLeaveLoop

SpecSimple == InitDetector /\ [][NextSimple]_vars

\* ------------------------------------------- test_enhanced_system: manual_test
\* The characters the lines typed at the prompt of manual_test are made of:
\* two of the commands, the quit key, upper-case letters, a blank, another key.
Keys == {"1", "b", "q", "B", "Q", "x", " "}

\* The characters str.strip() removes at both ends.
Whitespace == {" "}

\* The lines of at most n characters.
RECURSIVE Lines(_)
Lines(n) ==
    IF n = 0 THEN {<<>>}
    ELSE LET shorter == Lines(n - 1)
         IN  shorter \cup {Append(l, k) : l \in {x \in shorter : Len(x) = n - 1}, k \in Keys}

\* What input("> ") can return.
Inputs == Lines(MaxLen)

\* str.lower() on one character.
lower_char(c) ==
    CASE c = "B" -> "b"
      [] c = "Q" -> "q"
      [] OTHER   -> c

\* str.lower()
lower(s) == [i \in DOMAIN s |-> lower_char(s[i])]

RECURSIVE lstrip(_)
lstrip(s) == IF s # <<>> /\ Head(s) \in Whitespace THEN lstrip(Tail(s)) ELSE s

RECURSIVE rstrip(_)
rstrip(s) ==
    IF s # <<>> /\ s[Len(s)] \in Whitespace THEN rstrip(SubSeq(s, 1, Len(s) - 1)) ELSE s

\* str.strip()
strip(s) == rstrip(lstrip(s))

\* The code of a character (all of them ASCII).
ord(c) ==
    CASE c = "0" -> 48
      [] c = "1" -> 49
      [] c = "a" -> 97
      [] c = "b" -> 98
      [] c = "q" -> 113
      [] c = "t" -> 116
      [] c = "v" -> 118
      [] c = "x" -> 120
      [] c = "B" -> 66
      [] c = "Q" -> 81
      [] c = " " -> 32

\* command.encode(): the bytes of the command.
encode_command(command) == [i \in DOMAIN command |-> ord(command[i])]

\* The list in "elif command in ['1', '0', 'b', 'v', 'a', 't']".
COMMANDS == {"1", "0", "b", "v", "a", "t"}

\* What the device I/O of one accepted command does: all of it succeeds, the
\* write raises, or the write goes out and the flush or a read raises.
LinkOutcomes == {"ok", "write_raises", "read_raises"}

\* Variant: every one-character command other than 'q' is written.
manual_command_any(ard, input, link) ==
    LET command == lower(strip(input))
    IN  IF command = <<"q">>
        THEN [command |-> command, outcome |-> "quit", wrote |-> <<>>,
              arduino |-> "closed", closed |-> TRUE]
        ELSE IF Len(command) = 1
        THEN IF link = "write_raises"
             THEN [command |-> command, outcome |-> "error", wrote |-> <<>>,
                   arduino |-> ard, closed |-> FALSE]
             ELSE [command |-> command,
                   outcome |-> IF link = "ok" THEN "written" ELSE "error",
                   wrote |-> encode_command(command), arduino |-> ard, closed |-> FALSE]
        ELSE [command |-> command, outcome |-> "invalid", wrote |-> <<>>,
              arduino |-> ard, closed |-> FALSE]

\* One pass of the loop of manual_test on the line the prompt returned.  'q'
\* breaks out of the loop to arduino.close(); an exception of the link goes to
\* the except clause, which prints the error and closes nothing.
manual_command(ard, input, link) ==
    LET command == lower(strip(input))
    IN  IF command = <<"q">>
        THEN [command |-> command, outcome |-> "quit", wrote |-> <<>>,
              arduino |-> "closed", closed |-> TRUE]
        ELSE IF Len(command) = 1 /\ command[1] \in COMMANDS
        THEN IF link = "write_raises"
             THEN [command |-> command, outcome |-> "error", wrote |-> <<>>,
                   arduino |-> ard, closed |-> FALSE]
             ELSE [command |-> command,
                   outcome |-> IF link = "ok" THEN "written" ELSE "error",
                   wrote |-> encode_command(command), arduino |-> ard, closed |-> FALSE]
        ELSE [command |-> command, outcome |-> "invalid", wrote |-> <<>>,
              arduino |-> ard, closed |-> FALSE]

\* The test tools before their first step; they have none of the fields of the
\* controllers but the two counters.
InitTools ==
    /\ pc = "init"
    /\ eye_closed_counter = 0
    /\ no_face_counter = 0
    /\ car_running = FALSE
    /\ arduino = "None"
    /\ det = NoDet
    /\ sent = NoSent
    /\ write_failed = FALSE
    /\ lastIssued = "none"
    /\ run = NoRun
    /\ prev = [kind |-> "none", len |-> 0]
    /\ nl = [car_running |-> FALSE, eye_closed_counter |-> 0, no_face_counter |-> 0,
             raised |-> FALSE, wrote |-> FALSE]
    /\ io = NoIo
    /\ voice = NoVoice
    /\ last_written = <<>>
    /\ frame_counter = 0
    /\ sleepy_counter = 0
    /\ frame = NoFrame
    /\ base = NoBase
    /\ manual = NoManual
    /\ test = NoTest

\* The variables manual_test leaves alone.
not_manual == <<eye_closed_counter, no_face_counter, sent, write_failed, io, base, test>>

\* serial.Serial(port, 9600, timeout=1): the port opens, or the exception goes
\* to the except clause and the session never starts.
ManualConnect ==
    /\ pc = "init"
    /\ \E opens \in BOOLEAN :
         /\ arduino' = IF opens THEN "open" ELSE "None"
         /\ pc' = IF opens THEN "loop" ELSE "error"
         /\ manual' = [NoManual EXCEPT !.outcome = IF opens THEN "connected" ELSE "error"]
    /\ UNCHANGED last_written
    /\ UNCHANGED not_manual
    /\ UNCHANGED car
    /\ UNCHANGED sleepiness

\* One line typed at the prompt and what the loop does with it.
ManualCommand ==
    /\ pc = "loop"
    /\ manual.inputs < MaxInputs
    /\ \E input \in Inputs, link \in LinkOutcomes :
         \E r \in {manual_command(arduino, input, link)} :
             /\ arduino' = r.arduino
             /\ manual' = [input |-> input, command |-> r.command, wrote |-> r.wrote,
                           outcome |-> r.outcome, inputs |-> manual.inputs + 1,
                           closes |-> manual.closes + (IF r.closed THEN 1 ELSE 0)]
             /\ last_written' = IF r.wrote # <<>> THEN <<r.wrote[Len(r.wrote)]>>
                                ELSE last_written
             /\ pc' = CASE r.outcome = "quit"  -> "done"
                        [] r.outcome = "error" -> "error"
                        [] OTHER               -> "loop"
    /\ UNCHANGED not_manual
    /\ UNCHANGED car
    /\ UNCHANGED sleepiness

\* input() raises EOFError: the except clause prints it; the link stays open.
ManualInputFails ==
    /\ pc = "loop"
    /\ manual' = [manual EXCEPT !.input = <<>>, !.command = <<>>, !.wrote = <<>>,
                                !.outcome = "error"]
    /\ pc' = "error"
    /\ UNCHANGED <<arduino, last_written>>
    /\ UNCHANGED not_manual
    /\ UNCHANGED car
    /\ UNCHANGED sleepiness

NextManual == ManualConnect \/ ManualCommand \/ ManualInputFails

SpecManual == InitTools /\ [][NextManual]_vars

\* -------------------------------- test_sleepiness_no_arduino: the test detector
\* The values cv2.waitKey(1) & 0xFF is told apart by: no key, 'q', 'r', another key.
TestKeys == {"none", "q", "r", "other"}

\* SleepinessTestDetector.detect_sleepiness: the counters as in the car, the
\* alert on every frame past the threshold, counted in alert_count.
test_detect_sleepiness(ecc, nfc, alerts, obs) ==
    IF ~obs.face
    THEN [is_sleepy |-> FALSE, eye_count |-> 0, eye_closed_counter |-> 0,
          no_face_counter |-> nfc + 1, alert_count |-> alerts]
    ELSE IF obs.eyes < 2
         THEN IF ecc + 1 > TEST_EYE_CLOSED_THRESHOLD
              THEN [is_sleepy |-> TRUE, eye_count |-> obs.eyes,
                    eye_closed_counter |-> ecc + 1, no_face_counter |-> 0,
                    alert_count |-> alerts + 1]
              ELSE [is_sleepy |-> FALSE, eye_count |-> obs.eyes,
                    eye_closed_counter |-> ecc + 1, no_face_counter |-> 0,
                    alert_count |-> alerts]
         ELSE [is_sleepy |-> FALSE, eye_count |-> obs.eyes, eye_closed_counter |-> 0,
               no_face_counter |-> 0, alert_count |-> alerts]

\* Variant: 'r' resets no_face_counter as well.
handle_key_all(key, ecc, nfc, alerts, frames) ==
    IF key = "q"
    THEN [leave |-> TRUE, eye_closed_counter |-> ecc, no_face_counter |-> nfc,
          alert_count |-> alerts, total_frames |-> frames]
    ELSE IF key = "r"
    THEN [leave |-> FALSE, eye_closed_counter |-> 0, no_face_counter |-> 0,
          alert_count |-> 0, total_frames |-> 0]
    ELSE [leave |-> FALSE, eye_closed_counter |-> ecc, no_face_counter |-> nfc,
          alert_count |-> alerts, total_frames |-> frames]

\* The key handling at the end of a pass of SleepinessTestDetector.run: 'q'
\* breaks; 'r' sets eye_closed_counter, alert_count and total_frames to 0.
handle_key(key, ecc, nfc, alerts, frames) ==
    IF key = "q"
    THEN [leave |-> TRUE, eye_closed_counter |-> ecc, no_face_counter |-> nfc,
          alert_count |-> alerts, total_frames |-> frames]
    ELSE IF key = "r"
    THEN [leave |-> FALSE, eye_closed_counter |-> 0, no_face_counter |-> nfc,
          alert_count |-> 0, total_frames |-> 0]
    ELSE [leave |-> FALSE, eye_closed_counter |-> ecc, no_face_counter |-> nfc,
          alert_count |-> alerts, total_frames |-> frames]

\* The variables SleepinessTestDetector does not have.
not_test == <<arduino, sent, write_failed, io, last_written, base, manual>>

\* __init__ opens the webcam, and leaves through exit() when it cannot.
TestOpenCamera ==
    /\ pc = "init"
    /\ \E opened \in BOOLEAN : pc' = IF opened THEN "loop" ELSE "exit"
    /\ UNCHANGED <<eye_closed_counter, no_face_counter, test>>
    /\ UNCHANGED not_test
    /\ UNCHANGED car
    /\ UNCHANGED sleepiness

\* One pass of the loop of run: the frame is read and counted, detect_sleepiness
\* runs, the frame is shown, and the key poll is handled.
TestRunFrame ==
    /\ pc = "loop"
    /\ test.total_frames < MaxFrames
    /\ \E obs \in Observations, key \in TestKeys :
         /\ (ObsKind(obs) = "closed" => eye_closed_counter < MaxCount)
         /\ (ObsKind(obs) = "noface" => no_face_counter < MaxRun)
         /\ \E d \in {test_detect_sleepiness(eye_closed_counter, no_face_counter,
                                             test.alert_count, obs)} :
              \E k \in {handle_key(key, d.eye_closed_counter, d.no_face_counter,
                                   d.alert_count, test.total_frames + 1)} :
                  /\ eye_closed_counter' = k.eye_closed_counter
                  /\ no_face_counter' = k.no_face_counter
                  /\ test' = [total_frames |-> k.total_frames,
                              alert_count |-> k.alert_count,
                              ran |-> TRUE,
                              is_sleepy |-> d.is_sleepy,
                              detected |-> [eye_closed_counter |-> d.eye_closed_counter,
                                            no_face_counter |-> d.no_face_counter],
                              before |-> [eye_closed_counter |-> eye_closed_counter,
                                          no_face_counter |-> no_face_counter],
                              key |-> key]
                  /\ pc' = IF k.leave THEN "done" ELSE "loop"
    /\ UNCHANGED not_test
    /\ UNCHANGED car
    /\ UNCHANGED sleepiness

\* cap.read() returns ret = False, or KeyboardInterrupt arrives: the loop ends
\* and cleanup releases the camera and prints the results.
TestLeaveLoop ==
    /\ pc = "loop"
    /\ pc' = "done"
    /\ UNCHANGED <<eye_closed_counter, no_face_counter, test>>
    /\ UNCHANGED not_test
    /\ UNCHANGED car
    /\ UNCHANGED sleepiness

NextTest == TestOpenCamera \/ TestRunFrame \/ TestLeaveLoop

SpecTest == InitTools /\ [][NextTest]_vars

\* ------------------------------------------------------------------ claims
\* A step of the frame loop: every processed frame extends or replaces the run.
FrameStep == pc = "loop" /\ run' # run

\* The send_to_arduino calls of the last step.
Calls == {c \in {sent.setup, sent.loop, sent.cleanup} : c.called}

\* C1: in a run of consecutive face-present frames with fewer than 2 eyes that
\* started with eye_closed_counter = 0, detect_eye_state returns None (UNCERTAIN)
\* on calls 1..EYE_CLOSED_THRESHOLD of the run and False (EYES_CLOSED) on call
\* EYE_CLOSED_THRESHOLD + 1 and on every later call of the run.
C1_ClosedRunDebounce ==
    (run.kind = "closed" /\ run.startClosed = 0) =>
        /\ (run.len \in 1..EYE_CLOSED_THRESHOLD =>
                det.eyes_open = "None" /\ DetectionState(det) = "UNCERTAIN")
        /\ (run.len >= EYE_CLOSED_THRESHOLD + 1 =>
                det.eyes_open = "False" /\ DetectionState(det) = "EYES_CLOSED")

\* C1 witness: the call after the first EYES_CLOSED call of a run.
C1_Witness ==
    /\ run.kind = "closed" /\ run.startClosed = 0
    /\ run.len = EYE_CLOSED_THRESHOLD + 2
    /\ DetectionState(det) = "EYES_CLOSED"

\* C2: after every processed frame car_running is True if the detection was True
\* (EYES_OPEN), False if it was False (EYES_CLOSED or NO_FACE), and unchanged if
\* it was None (UNCERTAIN); an UNCERTAIN frame makes no send_to_arduino call.
C2_DecisionPolicy ==
    [][FrameStep =>
        /\ (det'.eyes_open = "True" => car_running')
        /\ (det'.eyes_open = "False" => ~car_running')
        /\ (det'.eyes_open = "None" =>
                car_running' = car_running /\ ~sent'.loop.called)
        /\ DetectionState(det') \in {"EYES_OPEN", "EYES_CLOSED", "NO_FACE", "UNCERTAIN"}
        /\ (DetectionState(det') = "EYES_OPEN" <=> det'.eyes_open = "True")
        /\ (DetectionState(det') = "UNCERTAIN" <=> det'.eyes_open = "None")]_vars

\* C2 witness: an UNCERTAIN frame that held the car RUNNING.
C2_Witness ==
    /\ DetectionState(det) = "UNCERTAIN"
    /\ car_running
    /\ run.kind = "closed" /\ run.len >= 1
    /\ ~sent.loop.called

\* C3: send_to_arduino is called in the loop on a frame exactly when car_running
\* changes on that frame, with '1' when it becomes True and '0' when it becomes
\* False; no two consecutive loop-issued commands are equal; and a steady
\* EYES_OPEN stream causes at most one call.
C3_EdgeTriggered ==
    /\ [][FrameStep =>
            /\ (sent'.loop.called <=> car_running' # car_running)
            /\ (sent'.loop.called =>
                    /\ sent'.loop.signal = (IF car_running' THEN "1" ELSE "0")
                    /\ sent'.loop.signal # lastIssued
                    /\ lastIssued' = sent'.loop.signal)]_vars
    /\ [](run.kind = "open" => run.calls <= 1)

\* C3 witness: a steady stream of open-eye frames that started the car once.
C3_Witness ==
    /\ run.kind = "open" /\ run.len = MaxRun
    /\ ~run.startCar /\ car_running
    /\ run.calls = 1 /\ lastIssued = "1"
    /\ ~sent.loop.called

\* C4: a single frame with a face and 2 or more eyes right after a run of
\* closed-eye frames of any length sets eye_closed_counter to 0 and returns True
\* (EYES_OPEN) on that frame.
C4_OpenFrameResets ==
    (run.kind = "open" /\ run.len = 1 /\ prev.kind = "closed") =>
        /\ eye_closed_counter = 0
        /\ det.eyes_open = "True"
        /\ DetectionState(det) = "EYES_OPEN"

\* C4 witness: the open frame follows a closed run that had passed the threshold.
C4_Witness ==
    /\ run.kind = "open" /\ run.len = 1
    /\ prev.kind = "closed" /\ prev.len > EYE_CLOSED_THRESHOLD
    /\ eye_closed_counter = 0

\* C5: a frame with no face returns False with the no-driver status (NO_FACE),
\* sets eye_closed_counter to 0 and adds 1 to no_face_counter, whatever the
\* counters and car_running were before the frame.
C5_NoFaceFrame ==
    [][(FrameStep /\ run'.kind = "noface") =>
        /\ det'.eyes_open = "False"
        /\ DetectionState(det') = "NO_FACE"
        /\ eye_closed_counter' = 0
        /\ no_face_counter' = no_face_counter + 1]_vars

\* C5 witness: the second no-face frame after closed-eye frames, the car having
\* been RUNNING when the face was lost.
C5_Witness ==
    /\ run.kind = "noface" /\ run.len = 2 /\ run.startCar
    /\ prev.kind = "closed" /\ prev.len > 1
    /\ no_face_counter = 2 /\ eye_closed_counter = 0

\* C6: threshold 15, link connected and every write succeeding, car RUNNING and
\* eye_closed_counter = 0 beforehand: over 16 consecutive frames with a face and
\* 0 eyes, frames 1..15 keep car_running True with no byte written; on frame 16
\* the detection is EYES_CLOSED, car_running is False, and exactly one '0' has
\* been written over the 16 frames.
C6_SixteenClosedFrames ==
    (/\ EYE_CLOSED_THRESHOLD = 15
     /\ arduino # "None" /\ ~run.failed
     /\ run.kind = "closed" /\ run.eyes = 0
     /\ run.startCar /\ run.startClosed = 0) =>
        /\ (run.len \in 1..15 => car_running /\ run.writes = <<>>)
        /\ (run.len = 16 =>
                /\ DetectionState(det) = "EYES_CLOSED"
                /\ ~car_running
                /\ run.writes = <<"0">>)

\* C6 witness: frame 16 of the scenario.
C6_Witness ==
    /\ arduino = "open" /\ ~run.failed
    /\ run.kind = "closed" /\ run.eyes = 0 /\ run.len = 16
    /\ run.startCar /\ run.startClosed = 0
    /\ run.writes = <<"0">>

\* C7 as stated: after 10 closed-eye frames, each of 5 consecutive no-face frames
\* returns NO_FACE and leaves eye_closed_counter = 0 and car_running = False; at
\* most one '0' is written across them, exactly one if the car was RUNNING
\* before the first of them and none if it was STOPPED.
C7_Original ==
    (/\ EYE_CLOSED_THRESHOLD = 15
     /\ prev.kind = "closed" /\ prev.len = 10
     /\ run.kind = "noface" /\ run.len \in 1..5) =>
        /\ DetectionState(det) = "NO_FACE"
        /\ eye_closed_counter = 0
        /\ ~car_running
        /\ Len(run.writes) <= 1
        /\ (run.startCar => run.writes = <<"0">>)
        /\ (~run.startCar => run.writes = <<>>)

\* C7 amended: the same, with send_to_arduino('0') called exactly once if the car
\* was RUNNING before the first no-face frame and not at all if it was STOPPED;
\* the one '0' byte is written exactly when that call finds the link open and
\* its write succeeds.
C7_NoFaceAfterTenClosed ==
    (/\ EYE_CLOSED_THRESHOLD = 15
     /\ prev.kind = "closed" /\ prev.len = 10
     /\ run.kind = "noface" /\ run.len \in 1..5) =>
        /\ DetectionState(det) = "NO_FACE"
        /\ eye_closed_counter = 0
        /\ ~car_running
        /\ run.calls = (IF run.startCar THEN 1 ELSE 0)
        /\ run.writes = (IF run.startCar /\ arduino # "None" /\ ~run.failed
                         THEN <<"0">> ELSE <<>>)

\* C7 witness: the fifth no-face frame, the car having been RUNNING and the link absent.
C7_Witness ==
    /\ prev.kind = "closed" /\ prev.len = 10
    /\ run.kind = "noface" /\ run.len = 5
    /\ run.startCar /\ run.calls = 1
    /\ arduino = "None" /\ run.writes = <<>>

\* C8: fed the same frames, the program with self.arduino = None raises nothing
\* and has, after every frame, the same car_running, eye_closed_counter and
\* no_face_counter as the program with a live link; it writes no byte.
C8_DisconnectionTransparency ==
    (arduino # "None" /\ pc \in {"loop", "done"}) =>
        /\ ~nl.raised
        /\ ~nl.wrote
        /\ nl.car_running = car_running
        /\ nl.eye_closed_counter = eye_closed_counter
        /\ nl.no_face_counter = no_face_counter

\* C8 witness: a frame on which the live link carried the stop byte.
C8_Witness ==
    /\ arduino = "open" /\ pc = "loop"
    /\ sent.loop.called /\ sent.loop.ok /\ sent.loop.signal = "0"
    /\ ~nl.car_running /\ ~nl.wrote
    /\ DetectionState(det) = "EYES_CLOSED"

C10_WriteFailureAbsorbed ==
    [][(FrameStep /\ sent'.loop.called /\ sent'.loop.attempted /\ ~sent'.loop.ok) =>
        /\ pc' = "loop"
        /\ \E obs \in Observations :
             /\ ObsKind(obs) = run'.kind
             /\ LET g == iteration(car_running, eye_closed_counter, no_face_counter,
                                   arduino, obs, TRUE)
                IN  /\ ~g.raised
                    /\ g.send.written = sent'.loop.signal
                    /\ car_running' = g.car_running
                    /\ eye_closed_counter' = g.eye_closed_counter
                    /\ no_face_counter' = g.no_face_counter]_vars

\* C10 witness: the frame after a frame whose write failed.
C10_Witness ==
    /\ pc = "loop"
    /\ run.failed /\ run.len >= 2
    /\ ~sent.loop.called
    /\ run.writes = <<>> /\ run.calls = 1

\* C11: when opening the serial port fails, setup_arduino raises nothing, leaves
\* self.arduino = None, writes no byte (then or later), and construction goes
\* on to the webcam, so that only a missing camera keeps the loop from running.
C11_OpenFailureAbsorbed ==
    io.result = "failed" =>
        /\ ~io.raised
        /\ io.warned
        /\ arduino = "None"
        /\ ~sent.setup.called
        /\ \A c \in Calls : ~c.attempted /\ c.bytes = <<>>
        /\ ~write_failed
        /\ pc \in {"camera", "loop", "done", "exit"}
        /\ (pc = "exit" => io.exit_by = "no_camera")

\* C11 witness: the frame loop running and starting the car after a failed open.
C11_Witness ==
    /\ io.result = "failed" /\ pc = "loop"
    /\ run.len >= 1 /\ car_running
    /\ sent.loop.called

\* C12: send_to_arduino called with self.arduino None, or with a handle that is
\* not open, performs no write or flush, prints and raises nothing, and leaves
\* the handle as it was.
C12_UnavailableSendNoOp ==
    /\ \A c \in Calls : c.link # "open" =>
            /\ ~c.attempted /\ ~c.ok
            /\ c.bytes = <<>> /\ c.ops = <<>>
            /\ ~c.printed /\ ~c.raised
            /\ c.after = c.link
    /\ \A ard \in {"None", "closed"}, signal \in {"0", "1"}, writeOk \in BOOLEAN :
            LET s == send_to_arduino(ard, signal, writeOk)
            IN  /\ ~s.attempted /\ s.written = "none" /\ s.bytes = <<>> /\ s.ops = <<>>
                /\ ~s.printed /\ ~s.raised
                /\ s.arduino = ard

\* C12 witness: the loop's stop command issued with no link.
C12_Witness ==
    /\ pc = "loop"
    /\ sent.loop.called /\ sent.loop.link = "None" /\ sent.loop.signal = "0"
    /\ ~sent.loop.attempted /\ arduino = "None"
    /\ ~car_running

\* C13: whichever way the frame loop is left (quit key, failed read,
\* KeyboardInterrupt), cleanup has run exactly once when the program is done;
\* with a link handle it attempts to write '0' on the open link, then closes the
\* link, exactly once; no write is ever attempted on a link that is not open.
C13_ShutdownOnce ==
    /\ (pc = "done" =>
            /\ io.cleanups = 1
            /\ io.exit_by \in ExitWays
            /\ IF io.result = "opened"
               THEN /\ sent.cleanup.called /\ sent.cleanup.signal = "0"
                    /\ sent.cleanup.attempted /\ sent.cleanup.link = "open"
                    /\ io.closes = 1 /\ arduino = "closed"
                    /\ io.cleanup_trace = <<"send", "sleep", "close", "release">>
               ELSE /\ ~sent.cleanup.called
                    /\ io.closes = 0 /\ arduino = "None"
                    /\ io.cleanup_trace = <<"release">>)
    /\ (pc # "done" => io.cleanups = 0 /\ io.closes = 0 /\ arduino # "closed")
    /\ \A c \in Calls : c.attempted => c.link = "open"

\* C13 witness: KeyboardInterrupt with the car RUNNING; the stop byte went out
\* and the link is closed.
C13_Witness ==
    /\ pc = "done" /\ io.exit_by = "keyboard_interrupt"
    /\ car_running
    /\ sent.cleanup.ok /\ sent.cleanup.bytes = <<48>>
    /\ io.closes = 1 /\ arduino = "closed"

\* C14: when the webcam cannot be opened after the link was connected, the
\* program has run cleanup and closed the link by the time it exits.
C14_CleanupBeforeExit ==
    (pc = "exit" /\ io.result = "opened") =>
        /\ io.cleanups = 1
        /\ arduino = "closed"

C17_ByteFraming ==
    \A c \in Calls :
        /\ (c.ok =>
                /\ c.signal \in {"0", "1"}
                /\ Len(c.bytes) = 1
                /\ c.bytes[1] = (IF c.signal = "0" THEN 48 ELSE 49)
                /\ c.ops = <<"write", "flush">>)
        /\ (~c.ok => c.bytes = <<>>)

\* C17 witness: the start command written by the loop.
C17_Witness ==
    /\ sent.loop.ok /\ sent.loop.signal = "1"
    /\ sent.loop.bytes = <<49>>
    /\ car_running

\* C18: in setup_arduino, once the port is open the 2-second pause is over
\* before the first byte is written: the send comes after the sleep, which
\* comes after the open.
C18_HandshakePause ==
    (io.result = "opened") =>
        /\ io.slept >= 2
        /\ \A i \in DOMAIN io.setup_trace :
              io.setup_trace[i] = "send" =>
                  \E j \in 1..(i - 1) :
                      /\ io.setup_trace[j] = "sleep"
                      /\ \E k \in 1..(j - 1) : io.setup_trace[k] = "open"
        /\ \E i \in DOMAIN io.setup_trace : io.setup_trace[i] = "send"

\* C18 witness: the connect-time stop byte written after the pause.
C18_Witness ==
    /\ pc = "camera" /\ io.result = "opened"
    /\ sent.setup.ok /\ sent.setup.bytes = <<48>>
    /\ io.slept = HANDSHAKE_PAUSE

C20_NoReconnect ==
    /\ [](io.open_calls <= 1 /\ (pc # "init" => io.open_calls = 1))
    /\ [][io'.open_calls # io.open_calls => pc = "init"]_vars
    /\ [][(pc # "init" /\ arduino = "None") => arduino' = "None"]_vars
    /\ [][arduino = "closed" => arduino' = "closed"]_vars
    /\ [][arduino' = "open" => (arduino = "open" \/ pc = "init")]_vars

\* C20 witness: a run that ended without a link after several frames.
C20_Witness ==
    /\ pc = "done" /\ io.result = "failed" /\ arduino = "None"
    /\ run.len >= 2 /\ io.open_calls = 1
    /\ io.exit_by = "quit_key"

\* C21: in SleepinessDetector.process_frame, on a frame with one face, an
\* average EAR below EAR_THRESHOLD adds 1 to frame_counter and issues '0'
\* exactly when the new count is at least CONSECUTIVE_FRAMES (no command
\* otherwise); an average EAR at or above the threshold resets frame_counter to
\* 0 and issues '1'.
C21_ContinuousDebounce ==
    (frame.nth >= 1 /\ frame.faces = 1) =>
        IF Below(frame.avg, EAR_THRESHOLD)
        THEN /\ frame_counter = frame.before + 1
             /\ (frame.cmds = <<"0">> <=> frame_counter >= CONSECUTIVE_FRAMES)
             /\ (frame_counter < CONSECUTIVE_FRAMES => frame.cmds = <<>>)
             /\ frame.cmds \in {<<>>, <<"0">>}
        ELSE /\ frame_counter = 0
             /\ frame.cmds = <<"1">>

\* C21 witness: the frame on which the count reaches CONSECUTIVE_FRAMES and
\* the stop byte goes out.
C21_Witness ==
    /\ frame.faces = 1 /\ Below(frame.avg, EAR_THRESHOLD)
    /\ frame.before = CONSECUTIVE_FRAMES - 1
    /\ frame_counter = CONSECUTIVE_FRAMES
    /\ frame.cmds = <<"0">> /\ frame.writes = <<48>>

\* C22: in SleepinessDetector.process_frame a frame without a face leaves
\* frame_counter at 0.
C22_NoFaceResets ==
    (frame.nth >= 1 /\ frame.faces = 0) => frame_counter = 0

\* C23: in the sleepiness detectors a byte is written on a frame only when the
\* run/stop outcome differs from that of the frame before.
C23_EdgeTriggeredDetectors ==
    (frame.nth >= 2 /\ frame.writes # <<>>) => frame.sleepy # frame.was_sleepy

\* C24: in SimpleSleepinessDetector.run the command issued on a frame without a
\* face is '0'.
C24_AbsenceSendsStop ==
    (frame.nth >= 1 /\ frame.kind = "noface") => frame.cmds = <<"0">>

\* C25: with a link handle, cleanup of the sleepiness detectors sends '0' as
\* its last command before closing the link.
C25_FinalStop ==
    (pc = "done" /\ io.result = "opened") =>
        /\ sent.cleanup.called
        /\ sent.cleanup.signal = "0"

\* C26: in SleepinessDetector.process_frame the closed-eye counter
\* frame_counter grows by at most 1 in one frame, whatever the number of faces.
C26_GrowsByOne ==
    frame.nth >= 1 => frame_counter <= frame.before + 1

\* C27: for the counters of every reachable state and every observation,
\* detect_eye_state returns one of EYES_OPEN, EYES_CLOSED, UNCERTAIN, NO_FACE
\* (True, False or None with the matching status) and counters that are not
\* negative; both counters are >= 0 in every reachable state.
C27_DetectionTotal ==
    /\ eye_closed_counter >= 0 /\ no_face_counter >= 0
    /\ (det # NoDet =>
            DetectionState(det) \in {"EYES_OPEN", "EYES_CLOSED", "UNCERTAIN", "NO_FACE"})
    /\ \A obs \in Observations :
          LET d == detect_eye_state(eye_closed_counter, no_face_counter, obs)
          IN  /\ DetectionState(d) \in {"EYES_OPEN", "EYES_CLOSED", "UNCERTAIN", "NO_FACE"}
              /\ d.eyes_open \in {"True", "False", "None"}
              /\ (d.eyes_open = "True" <=> DetectionState(d) = "EYES_OPEN")
              /\ (d.eyes_open = "None" <=> DetectionState(d) = "UNCERTAIN")
              /\ d.eye_closed_counter >= 0 /\ d.no_face_counter >= 0

\* C27 witness: a one-eye frame answered UNCERTAIN right after a no-face run.
C27_Witness ==
    /\ pc = "loop"
    /\ DetectionState(det) = "UNCERTAIN"
    /\ prev.kind = "noface" /\ prev.len >= 2
    /\ run.eyes = 1 /\ eye_closed_counter = 1

\* The landmark sets of EyeShapes on which calculate_ear differs from
\* (|p2-p6| + |p3-p5|) / (2 |p1-p4|), from 1.0 where A = B = C > 0, or from 0.0
\* where A = B = 0 and C > 0, by more than a thousandth.
EarMismatches ==
    {e \in EyeShapes :
        LET A == euclidean(e[2], e[6])
            B == euclidean(e[3], e[5])
            C == euclidean(e[1], e[4])
            ear == EarTable[e]
        IN  C > 0 /\
            ~ (/\ ear.kind = "num"
               /\ Abs(2 * C * ear.milli - (A + B) * Scale) <= 2 * C
               /\ ((A = C /\ B = C) => Abs(ear.milli - Scale) <= 1)
               /\ ((A = 0 /\ B = 0) => Abs(ear.milli) <= 1))}

\* C28: calculate_ear returns (|p2-p6| + |p3-p5|) / (2 |p1-p4|); with
\* A = B = C > 0 that is 1.0, and with A = B = 0 and C > 0 it is 0.0, within
\* one thousandth.
C28_EarFormula ==
    /\ EarMismatches = {}
    /\ (frame.left.C > 0 =>
            /\ frame.left.ear.kind = "num"
            /\ Abs(2 * frame.left.C * frame.left.ear.milli
                   - (frame.left.A + frame.left.B) * Scale) <= 2 * frame.left.C
            /\ ((frame.left.A = frame.left.C /\ frame.left.B = frame.left.C)
                    => Abs(frame.left.ear.milli - Scale) <= 1)
            /\ ((frame.left.A = 0 /\ frame.left.B = 0)
                    => Abs(frame.left.ear.milli) <= 1))

\* C28 witness: process_frame has computed the EAR of a left eye whose three
\* distances are equal, and got 1.0.
C28_Witness ==
    /\ frame.nth >= 1 /\ frame.faces >= 1
    /\ frame.left.C > 0
    /\ frame.left.A = frame.left.C /\ frame.left.B = frame.left.C
    /\ frame.left.ear = [kind |-> "num", milli |-> Scale]

\* C29: whenever car_running is True, eye_closed_counter is at most
\* EYE_CLOSED_THRESHOLD and no_face_counter is 0; the car is not RUNNING after
\* a no-face frame, and it is RUNNING after at most EYE_CLOSED_THRESHOLD
\* consecutive face-present frames with fewer than 2 eyes.
C29_FailSafe ==
    /\ (car_running =>
            /\ eye_closed_counter <= EYE_CLOSED_THRESHOLD
            /\ no_face_counter = 0)
    /\ (run.kind = "noface" => ~car_running)
    /\ ((run.kind = "closed" /\ car_running) => run.len <= EYE_CLOSED_THRESHOLD)

\* C29 witness: the car still RUNNING on the last closed frame before the
\* threshold is passed.
C29_Witness ==
    /\ pc = "loop" /\ car_running
    /\ run.kind = "closed" /\ run.len = EYE_CLOSED_THRESHOLD
    /\ eye_closed_counter = EYE_CLOSED_THRESHOLD

\* C30: with the link opened and no write failed so far, after setup_arduino
\* and after every frame the last byte written on the link is '1' when
\* car_running is True and '0' when it is False.
C30_ActuatorAgreement ==
    (io.result = "opened" /\ ~write_failed /\ pc \in {"camera", "loop", "exit"}) =>
        /\ (car_running <=> last_written = <<49>>)
        /\ (~car_running <=> last_written = <<48>>)

\* C30 witness: the car RUNNING again after a stop, the last byte on the link '1'.
C30_Witness ==
    /\ pc = "loop" /\ io.result = "opened" /\ ~write_failed
    /\ car_running /\ last_written = <<49>>
    /\ prev.kind = "noface" /\ run.kind = "open"

\* C31: eye_closed_counter is the length of the current unbroken run of
\* face-present frames with fewer than 2 eyes, no_face_counter is the length of
\* the current unbroken run of frames with no face, and the two are never
\* positive together.
C31_CounterMeaning ==
    /\ ~(eye_closed_counter > 0 /\ no_face_counter > 0)
    /\ (run.kind = "closed" => eye_closed_counter = run.len /\ no_face_counter = 0)
    /\ (run.kind = "noface" => no_face_counter = run.len /\ eye_closed_counter = 0)
    /\ (run.kind \in {"open", "none"} => eye_closed_counter = 0 /\ no_face_counter = 0)

\* C31 witness: three closed frames right after a run of four frames with no face.
C31_Witness ==
    /\ pc = "loop"
    /\ run.kind = "closed" /\ run.len = 3 /\ eye_closed_counter = 3
    /\ prev.kind = "noface" /\ prev.len = 4

\* C32: when the final '0' write of cleanup fails, the failure is absorbed:
\* the link is still closed, once, and the camera is released.
C32_BestEffortShutdown ==
    (sent.cleanup.called /\ sent.cleanup.attempted /\ ~sent.cleanup.ok) =>
        /\ ~sent.cleanup.raised
        /\ sent.cleanup.printed
        /\ pc = "done"
        /\ arduino = "closed"
        /\ io.cleanups = 1 /\ io.closes = 1
        /\ io.cleanup_trace = <<"send", "sleep", "close", "release">>

\* C32 witness: the loop left by the quit key with the car running, the final
\* write failed, the link closed.
C32_Witness ==
    /\ pc = "done" /\ io.exit_by = "quit_key" /\ car_running
    /\ sent.cleanup.attempted /\ ~sent.cleanup.ok
    /\ arduino = "closed" /\ io.closes = 1

\* C33: fed the same observations and the same link outcomes, the voice
\* variant and the base program have the same car_running, the same two
\* counters and the same link state after every step, and wrote the same bytes
\* in it; what the speech calls do changes none of them.
C33_VoiceRefinesBase ==
    /\ base.pc = pc
    /\ base.car_running = car_running
    /\ base.eye_closed_counter = eye_closed_counter
    /\ base.no_face_counter = no_face_counter
    /\ base.arduino = arduino
    /\ base.bytes = sent.setup.bytes \o sent.loop.bytes \o sent.cleanup.bytes

\* C33 witness: the frame that stops the car, the wake-up call spoken, the base
\* program having written '0' on the same frame.
C33_Witness ==
    /\ pc = "loop" /\ voice.stopped_now /\ voice.wake /\ voice.spoken
    /\ base.bytes = <<48>> /\ ~base.car_running
    /\ base.eye_closed_counter = EYE_CLOSED_THRESHOLD + 1

C37_RunningMeansVoiceOff ==
    car_running => ~voice.voice_active

\* C37 witness: the car started again after a wake-up call; voice_active is
\* False again.
C37_Witness ==
    /\ pc = "loop" /\ car_running /\ voice.started_now
    /\ voice.was_active /\ ~voice.voice_active
    /\ voice.last_wake # -1

\* C35 as stated: manual_test writes only when the line typed is one of '1',
\* '0', 'b', 'v', 'a', 't', and then writes the byte of that line unchanged; the
\* line 'q' ends the session with the link closed once.
C35_Original ==
    /\ (manual.wrote # <<>> =>
            /\ Len(manual.input) = 1
            /\ manual.input[1] \in COMMANDS
            /\ manual.wrote = <<ord(manual.input[1])>>)
    /\ (manual.input = <<"q">> =>
            pc = "done" /\ arduino = "closed" /\ manual.closes = 1)

\* C35: manual_test strips and lower-cases the line typed; it writes to the
\* link only when the resulting command is one of '1', '0', 'b', 'v', 'a', 't',
\* and then exactly the one byte of the command; any other command but 'q'
\* writes nothing and the loop goes on; the command 'q' writes nothing, ends
\* the session and closes the link, once; a session that ends by an exception
\* leaves the link open.
C35_ManualPassthrough ==
    /\ manual.command = lower(strip(manual.input))
    /\ (manual.wrote # <<>> =>
            /\ Len(manual.command) = 1
            /\ manual.command[1] \in COMMANDS
            /\ manual.wrote = <<ord(manual.command[1])>>)
    /\ (manual.outcome = "written" => manual.wrote # <<>> /\ pc = "loop")
    /\ ((manual.inputs > 0 /\ manual.outcome # "error"
         /\ manual.command # <<"q">>
         /\ ~(Len(manual.command) = 1 /\ manual.command[1] \in COMMANDS)) =>
            manual.wrote = <<>> /\ manual.outcome = "invalid" /\ pc = "loop")
    /\ (manual.command = <<"q">> =>
            /\ manual.wrote = <<>> /\ manual.outcome = "quit"
            /\ pc = "done" /\ arduino = "closed" /\ manual.closes = 1)
    /\ (manual.closes = 1 <=> pc = "done")
    /\ manual.closes <= 1
    /\ (pc = "error" => arduino # "closed")

\* C35 witness: the line "B" typed at the second prompt, and the byte of 'b'
\* written for it.
C35_Witness ==
    /\ pc = "loop" /\ manual.inputs = 2
    /\ manual.input = <<"B">> /\ manual.command = <<"b">>
    /\ manual.wrote = <<98>> /\ manual.outcome = "written"

\* EyeControlledCar: the pass of the loop leaves in the counters what
\* detect_eye_state put there, whatever the control block does.
CarLoopKeepsCounters ==
    \A car_now \in BOOLEAN, ecc \in 0..MaxCount, nfc \in 0..MaxEyes,
       ard \in {"None", "open"}, obs \in Observations, writeOk \in BOOLEAN :
        LET r == iteration(car_now, ecc, nfc, ard, obs, writeOk)
            d == detect_eye_state(ecc, nfc, obs)
        IN  /\ r.eye_closed_counter = d.eye_closed_counter
            /\ r.no_face_counter = d.no_face_counter

====
